---- MODULE Spec2Model ----
(***************************************************************************)
(* A model of the audit-capture subsystem of oathkeeper (package auditlog). *)
(*                                                                         *)
(* Part 1 (specification Spec) is the byte-capturing stream                *)
(* ReadCloserWithBuffer of auditlog/read_closer_with_buffer.go: one        *)
(* goroutine calls Read, one calls Close, NGetters call GetBufBlocking,     *)
(* in any interleaving.                                                    *)
(*                                                                         *)
(* The critical sections of the mutex m (Close: lines 65-67,               *)
(* GetBufBlocking: lines 78-84/87) hold no blocking operation and are      *)
(* taken as single steps. Everything the code does outside a lock          *)
(* (the range over *r.waiting, the read of *r.buffer, the append made      *)
(* under mBuffer only) is a step of its own.                               *)
(*                                                                         *)
(* Part 2 (specification SpecRT) is the decorator ProxyAuditLogDecorator   *)
(* of auditlog/proxy_decorator.go: one exchange goes through RoundTrip,    *)
(* the goroutine saveEvent that RoundTrip starts, and the caller's own     *)
(* reading of the returned body. Exchanges share only the builders and the *)
(* senders, which nothing writes after construction, so one exchange is    *)
(* followed at a time.                                                     *)
(***************************************************************************)
EXTENDS Integers, Sequences, FiniteSets, TLC

\* ------------------------------------------------------------------ bounds
\* Longest inner byte stream.
MaxLen == 2
\* Number of goroutines that call GetBufBlocking.
NGetters == 2
\* Longest list of configured builders.
MaxRules == 3
\* Bytes one Read of a body stream hands out.
ChunkLen == 1
\* Longest inner byte stream in the runs that check progress: Close and
\* GetBufBlocking decide on bufferReady and waiting alone, never on the bytes.
FairMaxLen == 1

\* How many times Director is called at most.
MaxDirector == 2

Getters == 1..NGetters

\* What a racing reader of the slice header can see while append writes it:
\* a value that is neither the old nor the new buffer.
Torn == <<-1>>

\* The byte streams: Read, Close and GetBufBlocking never look at a byte's
\* value, so a stream of n bytes is taken with its bytes all different
\* (1, 2, ..., n), which shows any loss, reordering or duplication.
ByteSeqs == {[i \in 1..n |-> i] : n \in 0..MaxLen}

VARIABLES
    \* the inner io.ReadCloser rc
    rcData,        \* the bytes the inner stream holds
    rcPos,         \* how many of them it has handed out
    rcFailed,      \* it has returned an error other than io.EOF, and goes on returning it
    rcClosed,      \* rc.Close() has been called
    \* the ReadCloserWithBuffer
    buffer,        \* *r.buffer
    mBuffer,       \* r.mBuffer: TRUE while held
    bufferReady,   \* *r.bufferReady
    waiting,       \* *r.waiting: the channels, each named by the getter that made it
    \* the goroutine calling Read
    readPc,        \* "idle" | "appending" | "ret"
    readN,         \* the bytes p[:n] of the Read in progress
    readErr,       \* its err: "nil" | "EOF" | "err"
    returned,      \* all bytes Read has returned to its caller so far
    sawEOF,        \* Read has returned io.EOF to its caller
    \* the goroutine calling Close
    closePc,       \* "idle" | "seal" | "range" | "send" | "done"
    notify,        \* the slice the range loop iterates
    notifyIdx,     \* the loop's position in it
    drainedAtClose,\* Close was called with no Read running, after Read had returned io.EOF and no
                   \* other error
    \* the goroutines calling GetBufBlocking
    getPc,         \* per getter: "idle" | "recv" | "readbuf" | "done"
    result,        \* per getter: the slice GetBufBlocking returned
    sealedAtCall,  \* per getter: Close had returned when the call started
    \* the ProxyAuditLogDecorator
    builders,      \* d.builders
    senders,       \* d.senders
    \* one exchange
    rtPc,          \* "idle" | "returned": RoundTrip has returned
    req,           \* the request RoundTrip was given (None: nil)
    fwdCalled,     \* d.proxy.RoundTrip was invoked
    fwdResp,       \* what it returned: the response (None: nil)
    fwdErr,        \*   and the error
    retResp,       \* what RoundTrip returned: the response (None: nil)
    retErr,        \*   and the error
    taskPc,        \* the goroutine saveEvent: "none" | "run" | "done"
    taskReq,       \* its req, a RequestWithBytesBody
    taskResp,      \* its resp, a ResponseWithBytesBody
    taskErr,       \* its roundTripError
    bi,            \* its position in d.builders
    si,            \* its position in d.senders
    sent,          \* the Send calls made so far, in order: the sender and the builder of the Event
    callerPc,      \* the caller of RoundTrip: "idle" | "drained"
    callerBytes,   \* what it read from the returned body up to the end
    callerErr      \* the error of that reading or of closing the body

streamVars == <<rcData, rcPos, rcFailed, rcClosed, buffer, mBuffer, bufferReady,
                waiting, readPc, readN, readErr, returned, sawEOF,
                closePc, notify, notifyIdx, drainedAtClose,
                getPc, result, sealedAtCall>>

rtVars == <<builders, senders, rtPc, req, fwdCalled, fwdResp, fwdErr, retResp, retErr,
            taskPc, taskReq, taskResp, taskErr, bi, si, sent,
            callerPc, callerBytes, callerErr>>

VARIABLES
    \* RoundTrip followed one statement at a time
    rtRequestCopy, \* its local requestCopy (None until it is made)
    rtResponseCopy,\* its local responseCopy
    goCount,       \* how many times the go statement of line 81 has run
    sendBlocks,    \* the senders whose Send never returns
    \* a function of the package applied to one input
    fnIn,          \* the input
    fnOut          \* None, or Some(what the function returned)

VARIABLES
    \* the revision whose Build reads the bodies themselves
    wire,          \* the two bodies on the transport, "req" and "resp": data, pos, closed
    readBy,        \* per body: who has called Read on it ("proxy", "caller", "audit")
    firstPc,       \* RoundTrip of that revision: "idle" | "returned"
    firstReq,      \* its request: url and method
    auditPc,       \* its saveEvent: "none" | "loop" | "respBody" | "done"
    auditBi,       \* saveEvent's position in the builders
    auditBuf,      \* what the Build in progress has read of each body
    auditViews,    \* what each finished Build has read of each body
    readerPc,      \* the caller with the response: "idle" | "reading" | "eof" | "closed"
    readerBytes    \* what it has read of the response body

firstVars == <<wire, readBy, firstPc, firstReq, auditPc, auditBi, auditBuf, auditViews,
               readerPc, readerBytes>>

VARIABLES
    \* the revision whose Build waits for the two wrapped bodies
    sealPc,        \* its RoundTrip: "idle" | "returned"
    sealReq,       \* the request: url and method (None before the call)
    sealResp,      \* the response: its status code (None: nil)
    sealGone,      \* the client has gone away and will not close the response body
    sealReady,     \* per body: *r.bufferReady of its ReadCloserWithBuffer
    sealWaiting,   \* per body: len(*r.waiting)
    sealClosePc,   \* per body, the goroutine calling Close: "idle" | "seal" | "range" | "send" | "done"
    sealLeft,      \* per body: the channels the range loop of Close has still to send to
    buildPc,       \* the audit task: "none" | "loop" | "reqGate" | "reqRecv" | "respGate" |
                   \*   "respRecv" | "fullGate" | "fullRecv" | "built" | "done"
    buildBi,       \* its position in the builders
    buildSi,       \* its position in the senders
    sealEvents     \* the Send calls made so far: the sender and the builder of the Event

sealVars == <<sealPc, sealReq, sealResp, sealGone, sealReady, sealWaiting, sealClosePc,
              sealLeft, buildPc, buildBi, buildSi, sealEvents>>

VARIABLES
    \* the decorator from its configuration file on
    fromFilePc,    \* NewProxyAuditLogDecoratorFromFile: "idle" | "loaded" | "refused" |
                   \*   "constructed"
    dirIn,         \* the requests the decorator's Director has been called with
    dirCalls       \* the requests the underlying proxy's Director has been called with

loadVars == <<fromFilePc, dirIn, dirCalls>>

VARIABLES
    \* the ReadCloserWithBuffer of the revision with the sync.RWMutex, run
    \* beside the one above on the same inner stream and for the same callers
    rwBuffer,      \* *r.buffer
    rwPos,         \* how many bytes of the inner stream its Read calls have been given
    rwLock,        \* r.m: "Lock" while the write lock is held, "free" after Unlock
    rwClosePc,     \* the goroutine calling Close: "idle" | "done" | "fault"
    rwGetPc,       \* per getter: "idle" | "rlock" | "done"
    rwResult,      \* per getter: the slice GetBufBlocking returned
    closeAgain     \* Close has been called on the stream above after it had returned

rwVars == <<rwBuffer, rwPos, rwLock, rwClosePc, rwGetPc, rwResult, closeAgain>>

VARIABLES
    \* what the caller and the audit task hold of one exchange
    snapPc,        \* RoundTrip: "idle" | "returned"
    snapReq,       \* the caller's *http.Request: its header
    snapCopy,      \* what the task holds of its own: the cloned request's header, both byte slices
    snapResp,      \* the *http.Response RoundTrip returned: its header and status code
    snapCaptured,  \* the header and status code the response had when RoundTrip returned
    snapEvent      \* the Event the task built (None before)

snapVars == <<snapPc, snapReq, snapCopy, snapResp, snapCaptured, snapEvent>>

VARIABLES
    \* one AuthorizerOPA and the goroutines calling its Authorize
    opaPayload,    \* c.Payload of the configuration the calls are made with
    opaVm,         \* a.vm: its external variable input (None: not set)
    opaPc,         \* per caller: "idle" | "marshalled" | "extset" | "evaluated" | "done"
    opaStr,        \* per caller: its local str
    opaPosted      \* per caller: the payload it posted to the endpoint (None before)

opaVars == <<opaPayload, opaVm, opaPc, opaStr, opaPosted>>

lateVars == <<rwVars, snapVars, opaVars>>

pathVars == <<rtRequestCopy, rtResponseCopy, goCount, sendBlocks>>

fnVars == <<fnIn, fnOut>>

\* What the stream and the exchange of specification SpecRT never touch.
extVars == <<pathVars, fnVars, firstVars, sealVars, loadVars, lateVars>>

vars == <<streamVars, rtVars, extVars>>

\* A nil pointer or interface is None, a present value x is Some(x).
None == <<>>
Some(x) == <<x>>

\* ------------------------------------------------------------ construction
\* NewReadCloserWithBuffer over a non-nil inner stream.
NewReadCloserWithBuffer ==
    /\ buffer = <<>>
    /\ mBuffer = FALSE
    /\ bufferReady = FALSE
    /\ waiting = <<>>

StreamInit ==
    /\ rcData \in ByteSeqs
    /\ rcPos = 0
    /\ rcFailed = FALSE
    /\ rcClosed = FALSE
    /\ NewReadCloserWithBuffer
    /\ readPc = "idle" /\ readN = <<>> /\ readErr = "nil"
    /\ returned = <<>> /\ sawEOF = FALSE
    /\ closePc = "idle" /\ notify = <<>> /\ notifyIdx = 1
    /\ drainedAtClose = FALSE
    /\ getPc = [g \in Getters |-> "idle"]
    /\ result = [g \in Getters |-> <<>>]
    /\ sealedAtCall = [g \in Getters |-> FALSE]

\* -------------------------------------------------------- the inner stream
\* The outcomes (n bytes, err) one rc.Read(p) can have under the io.Reader
\* contract: some bytes with a nil error; the last bytes together with
\* io.EOF, or with nil and io.EOF on the next call; (0, EOF) at the end; and
\* no bytes, or all that are left, together with another error, which the
\* stream then keeps returning. Closing the inner stream need not end its
\* data (ioutil.NopCloser); a stream that fails once closed is the outcome
\* (0, err).
InnerReadOutcomes ==
    LET left == Len(rcData) - rcPos
        take(n) == SubSeq(rcData, rcPos + 1, rcPos + n)
    IN  IF rcFailed
        THEN {[bytes |-> <<>>, err |-> "err"]}
        ELSE IF left = 0
        THEN {[bytes |-> <<>>, err |-> "EOF"]}
        ELSE {[bytes |-> take(n), err |-> "nil"] : n \in 1..left}
             \cup {[bytes |-> take(left), err |-> "EOF"]}
             \cup {[bytes |-> take(n), err |-> "err"] : n \in {0, left}}

\* ------------------------------------------------------------------- Read
readerVars == <<readPc, readN, readErr, returned, sawEOF>>
closerVars == <<closePc, notify, notifyIdx, drainedAtClose>>
getterVars == <<getPc, result, sealedAtCall>>

\* Read, lines 49-52: r.mBuffer.Lock(); n, err = r.rc.Read(p). With a nil
\* err the append of line 55 starts.
ReadCall ==
    /\ readPc = "idle"
    /\ ~mBuffer
    /\ mBuffer' = TRUE
    /\ \E o \in InnerReadOutcomes :
          /\ readN' = o.bytes
          /\ readErr' = o.err
          /\ rcPos' = rcPos + Len(o.bytes)
          /\ rcFailed' = (o.err = "err")
          /\ readPc' = IF o.err = "nil" THEN "appending" ELSE "ret"
    /\ UNCHANGED <<rcData, rcClosed, buffer, bufferReady, waiting,
                   returned, sawEOF, closerVars, getterVars>>
    /\ UNCHANGED <<rtVars, extVars>>

\* Read, line 55: *r.buffer = append(*r.buffer, p[:n]...) completes.
ReadAppend ==
    /\ readPc = "appending"
    /\ buffer' = buffer \o readN
    /\ readPc' = "ret"
    /\ UNCHANGED <<rcData, rcPos, rcFailed, rcClosed, mBuffer, bufferReady, waiting,
                   readN, readErr, returned, sawEOF, closerVars, getterVars>>
    /\ UNCHANGED <<rtVars, extVars>>

\* Read, line 58 and the deferred Unlock of line 50: the caller gets p[:n], err.
ReadReturn ==
    /\ readPc = "ret"
    /\ mBuffer' = FALSE
    /\ returned' = returned \o readN
    /\ sawEOF' = (sawEOF \/ readErr = "EOF")
    /\ readPc' = "idle"
    /\ readN' = <<>>
    /\ readErr' = "nil"
    /\ UNCHANGED <<rcData, rcPos, rcFailed, rcClosed, buffer, bufferReady, waiting,
                   closerVars, getterVars>>
    /\ UNCHANGED <<rtVars, extVars>>

\* ------------------------------------------------------------------ Close
\* Close, line 63: err := r.rc.Close(). The err is only handed back by
\* line 73 and decides nothing in between.
CloseCall ==
    /\ closePc = "idle"
    /\ rcClosed' = TRUE
    /\ drainedAtClose' = (sawEOF /\ ~rcFailed /\ readPc = "idle")
    /\ closePc' = "seal"
    /\ UNCHANGED <<rcData, rcPos, rcFailed, buffer, mBuffer, bufferReady, waiting,
                   readerVars, notify, notifyIdx, getterVars>>
    /\ UNCHANGED <<rtVars, extVars>>

\* A Close that forgets to raise the flag.
CloseSealNoFlag ==
    /\ closePc = "seal"
    /\ closePc' = "range"
    /\ UNCHANGED <<rcData, rcPos, rcFailed, rcClosed, buffer, mBuffer, bufferReady,
                   waiting, readerVars, notify, notifyIdx, drainedAtClose,
                   getterVars>>
    /\ UNCHANGED <<rtVars, extVars>>

\* Close, lines 65-67: *r.bufferReady = true under r.m.
CloseSeal ==
    /\ closePc = "seal"
    /\ bufferReady' = TRUE
    /\ closePc' = "range"
    /\ UNCHANGED <<rcData, rcPos, rcFailed, rcClosed, buffer, mBuffer, waiting,
                   readerVars, notify, notifyIdx, drainedAtClose, getterVars>>
    /\ UNCHANGED <<rtVars, extVars>>

\* Close, line 69: the range expression *r.waiting is evaluated once.
CloseRange ==
    /\ closePc = "range"
    /\ notify' = waiting
    /\ notifyIdx' = 1
    /\ closePc' = "send"
    /\ UNCHANGED <<rcData, rcPos, rcFailed, rcClosed, buffer, mBuffer, bufferReady,
                   waiting, readerVars, drainedAtClose, getterVars>>
    /\ UNCHANGED <<rtVars, extVars>>

\* Close, line 70 with GetBufBlocking, line 85: c <- struct{}{} on the
\* unbuffered channel meets the <-c of the getter that made c.
CloseSend(g) ==
    /\ closePc = "send"
    /\ notifyIdx <= Len(notify)
    /\ notify[notifyIdx] = g
    /\ getPc[g] = "recv"
    /\ getPc' = [getPc EXCEPT ![g] = "readbuf"]
    /\ notifyIdx' = notifyIdx + 1
    /\ UNCHANGED <<rcData, rcPos, rcFailed, rcClosed, buffer, mBuffer, bufferReady,
                   waiting, readerVars, closePc, notify, drainedAtClose,
                   result, sealedAtCall>>
    /\ UNCHANGED <<rtVars, extVars>>

\* Close, line 73: return err.
CloseReturn ==
    /\ closePc = "send"
    /\ notifyIdx > Len(notify)
    /\ closePc' = "done"
    /\ UNCHANGED <<rcData, rcPos, rcFailed, rcClosed, buffer, mBuffer, bufferReady,
                   waiting, readerVars, notify, notifyIdx, drainedAtClose,
                   getterVars>>
    /\ UNCHANGED <<rtVars, extVars>>

\* ---------------------------------------------------------- GetBufBlocking
\* A GetBufBlocking that does not look at the flag.
GetBufCheckNoWait(g) ==
    /\ getPc[g] = "idle"
    /\ getPc' = [getPc EXCEPT ![g] = "readbuf"]
    /\ sealedAtCall' = [sealedAtCall EXCEPT ![g] = (closePc = "done")]
    /\ UNCHANGED <<rcData, rcPos, rcFailed, rcClosed, buffer, mBuffer, bufferReady,
                   waiting, readerVars, closerVars, result>>
    /\ UNCHANGED <<rtVars, extVars>>

\* GetBufBlocking, lines 78-88: under r.m, either register a new channel in
\* *r.waiting and go on to wait on it, or find the flag raised.
GetBufCheck(g) ==
    /\ getPc[g] = "idle"
    /\ IF ~bufferReady
       THEN /\ waiting' = Append(waiting, g)
            /\ getPc' = [getPc EXCEPT ![g] = "recv"]
       ELSE /\ waiting' = waiting
            /\ getPc' = [getPc EXCEPT ![g] = "readbuf"]
    /\ sealedAtCall' = [sealedAtCall EXCEPT ![g] = (closePc = "done")]
    /\ UNCHANGED <<rcData, rcPos, rcFailed, rcClosed, buffer, mBuffer, bufferReady,
                   readerVars, closerVars, result>>
    /\ UNCHANGED <<rtVars, extVars>>

\* What the unsynchronized read of *r.buffer can yield: the slice header is
\* written by Read's append under mBuffer only, which no getter takes.
BufferViews ==
    IF readPc = "appending" THEN {buffer, buffer \o readN, Torn} ELSE {buffer}

\* GetBufBlocking, line 90: return *r.buffer.
GetBufReturn(g) ==
    /\ getPc[g] = "readbuf"
    /\ \E b \in BufferViews : result' = [result EXCEPT ![g] = b]
    /\ getPc' = [getPc EXCEPT ![g] = "done"]
    /\ UNCHANGED <<rcData, rcPos, rcFailed, rcClosed, buffer, mBuffer, bufferReady,
                   waiting, readerVars, closerVars, sealedAtCall>>
    /\ UNCHANGED <<rtVars, extVars>>

\* ---------------------------------------------------------- specification
\* The decorator before any request.
RTIdle ==
    /\ rtPc = "idle"
    /\ req = None
    /\ fwdCalled = FALSE /\ fwdResp = None /\ fwdErr = "nil"
    /\ retResp = None /\ retErr = "nil"
    /\ taskPc = "none" /\ taskReq = None /\ taskResp = None /\ taskErr = "nil"
    /\ bi = 1 /\ si = 1
    /\ sent = <<>>
    /\ callerPc = "idle" /\ callerBytes = <<>> /\ callerErr = "nil"

\* No exchange of the body-reading revision has started.
FirstIdle ==
    /\ wire = [b \in {"req", "resp"} |-> [data |-> <<>>, pos |-> 0, closed |-> FALSE]]
    /\ readBy = [b \in {"req", "resp"} |-> {}]
    /\ firstPc = "idle"
    /\ firstReq = None
    /\ auditPc = "none"
    /\ auditBi = 1
    /\ auditBuf = [b \in {"req", "resp"} |-> <<>>]
    /\ auditViews = <<>>
    /\ readerPc = "idle"
    /\ readerBytes = <<>>

\* No exchange of the revision with the wrapped bodies has started.
SealIdle ==
    /\ sealPc = "idle"
    /\ sealReq = None /\ sealResp = None
    /\ sealGone = FALSE
    /\ sealReady = [b \in {"req", "resp"} |-> FALSE]
    /\ sealWaiting = [b \in {"req", "resp"} |-> 0]
    /\ sealClosePc = [b \in {"req", "resp"} |-> "idle"]
    /\ sealLeft = [b \in {"req", "resp"} |-> 0]
    /\ buildPc = "none"
    /\ buildBi = 1 /\ buildSi = 1
    /\ sealEvents = <<>>

\* No decorator has been asked for from a configuration file, and Director
\* has not been called.
LoadIdle ==
    /\ fromFilePc = "idle"
    /\ dirIn = <<>> /\ dirCalls = <<>>

\* The stream of the RWMutex revision as NewReadCloserWithBuffer returns it.
RwIdle ==
    /\ rwBuffer = <<>> /\ rwPos = 0 /\ rwLock = "Lock" /\ rwClosePc = "idle"
    /\ rwGetPc = [g \in Getters |-> "idle"]
    /\ rwResult = [g \in Getters |-> <<>>]
    /\ closeAgain = FALSE

\* No exchange captured.
SnapIdle ==
    /\ snapPc = "idle"
    /\ snapReq = None /\ snapCopy = None /\ snapResp = None
    /\ snapCaptured = None /\ snapEvent = None

\* No Authorize called.
OpaIdle ==
    /\ opaPayload = "" /\ opaVm = None
    /\ opaPc = [g \in Getters |-> "idle"]
    /\ opaStr = [g \in Getters |-> None]
    /\ opaPosted = [g \in Getters |-> None]

LateIdle == RwIdle /\ SnapIdle /\ OpaIdle

\* Nothing of what extVars holds has started.
ExtIdle ==
    /\ rtRequestCopy = None /\ rtResponseCopy = None
    /\ goCount = 0
    /\ sendBlocks = {}
    /\ fnIn = None /\ fnOut = None
    /\ FirstIdle
    /\ SealIdle
    /\ LoadIdle
    /\ LateIdle

Init ==
    /\ StreamInit
    /\ builders = <<>>
    /\ senders = <<>>
    /\ RTIdle
    /\ ExtIdle

Next ==
    \/ ReadCall
    \/ ReadAppend
    \/ ReadReturn
    \/ CloseCall
    \/ CloseSeal
    \/ CloseRange
    \/ \E g \in Getters : CloseSend(g)
    \/ CloseReturn
    \/ \E g \in Getters : GetBufCheck(g)
    \/ \E g \in Getters : GetBufReturn(g)


Spec == Init /\ [][Next]_vars

\* The Go scheduler runs every runnable goroutine: a call that has started
\* goes on while it can. Whether Read, Close or GetBufBlocking is called at
\* all is up to the callers.
FairInit ==
    /\ Init
    /\ Len(rcData) <= FairMaxLen

FairSpec ==
    /\ FairInit
    /\ [][Next]_vars
    /\ WF_vars(CloseSeal)
    /\ WF_vars(CloseRange)
    /\ WF_vars(CloseReturn)
    /\ \A g \in Getters : WF_vars(CloseSend(g))
    /\ \A g \in Getters : WF_vars(GetBufReturn(g))

\* =========================================================== the decorator
Min(a, b) == IF a < b THEN a ELSE b

\* ------------------------------------------------------------ body streams
\* An io.ReadCloser as a body: its bytes, whether its last bytes come
\* together with io.EOF (as net/http bodies of known length do) or io.EOF
\* comes alone, and whether reading ends in an error after the bytes
\* ("read") or Close returns an error ("close").
Streams ==
    {[data |-> d, eofWithData |-> e, fails |-> f] :
        d \in {<<>>, [i \in 1..MaxLen |-> i]}, e \in BOOLEAN, f \in {"no", "read", "close"}}

\* One Read of stream st at position pos: ChunkLen bytes at most.
StreamRead(st, pos) ==
    LET left == Len(st.data) - pos
        n == Min(left, ChunkLen)
    IN  IF left = 0
        THEN [bytes |-> <<>>, err |-> IF st.fails = "read" THEN "err" ELSE "EOF"]
        ELSE [bytes |-> SubSeq(st.data, pos + 1, pos + n),
              err |-> IF n = left /\ st.eofWithData /\ st.fails # "read" THEN "EOF" ELSE "nil"]

\* A reading loop that throws away the bytes that come with io.EOF.
RECURSIVE ReadAllDropLast(_, _, _)
ReadAllDropLast(st, pos, acc) ==
    LET o == StreamRead(st, pos)
    IN  IF o.err = "nil"
        THEN ReadAllDropLast(st, pos + Len(o.bytes), acc \o o.bytes)
        ELSE [bytes |-> acc, err |-> IF o.err = "EOF" THEN "nil" ELSE o.err]

\* ioutil.ReadAll as teeReader and the caller use it: Read until an error,
\* keep the bytes of every Read, report io.EOF as success.
RECURSIVE ReadAll(_, _, _)
ReadAll(st, pos, acc) ==
    LET o == StreamRead(st, pos)
    IN  IF o.err = "nil"
        THEN ReadAll(st, pos + Len(o.bytes), acc \o o.bytes)
        ELSE [bytes |-> acc \o o.bytes, err |-> IF o.err = "EOF" THEN "nil" ELSE o.err]

\* ioutil.NopCloser(bytes.NewReader(raw)): io.EOF comes alone, nothing fails.
BytesReader(raw) == [data |-> raw, eofWithData |-> FALSE, fails |-> "no"]

\* teeReader(rc): drain rc, close it, hand back the bytes and a fresh reader
\* over them.
teeReader(rc) ==
    IF rc = None
    THEN [raw |-> <<>>, newReader |-> None, err |-> "errorNilReaderGiven"]
    ELSE LET r == ReadAll(rc[1], 0, <<>>)
         IN  IF r.err # "nil"
             THEN [raw |-> <<>>, newReader |-> None, err |-> r.err]
             ELSE IF rc[1].fails = "close"
             THEN [raw |-> <<>>, newReader |-> None, err |-> "closeErr"]
             ELSE [raw |-> r.bytes, newReader |-> Some(BytesReader(r.bytes)), err |-> "nil"]

\* NewRequestWithBytesBody(r): r.Body becomes the fresh reader (nil for a
\* nil body, which is let through); the copy carries the bytes.
NewRequestWithBytesBody(r) ==
    IF r = None
    THEN [copy |-> None, req |-> None, err |-> "nil request given"]
    ELSE LET t == teeReader(r[1].body)
         IN  IF t.err # "nil" /\ t.err # "errorNilReaderGiven"
             THEN [copy |-> None, req |-> r, err |-> t.err]
             ELSE [copy |-> Some([url |-> r[1].url, method |-> r[1].method, body |-> t.raw]),
                   req  |-> Some([r[1] EXCEPT !.body = t.newReader]),
                   err  |-> "nil"]

\* A NewResponseWithBytesBody that lets a nil body through as
\* NewRequestWithBytesBody does.
NewResponseWithBytesBodyLenient(r) ==
    IF r = None
    THEN [copy |-> None, resp |-> None, err |-> "nil response given"]
    ELSE LET t == teeReader(r[1].body)
         IN  IF t.err # "nil" /\ t.err # "errorNilReaderGiven"
             THEN [copy |-> None, resp |-> r, err |-> t.err]
             ELSE [copy |-> Some([status |-> r[1].status, body |-> t.raw]),
                   resp |-> Some([r[1] EXCEPT !.body = t.newReader]),
                   err  |-> "nil"]

\* NewResponseWithBytesBody(r): as for the request, but a nil body is an
\* error too.
NewResponseWithBytesBody(r) ==
    IF r = None
    THEN [copy |-> None, resp |-> None, err |-> "nil response given"]
    ELSE LET t == teeReader(r[1].body)
         IN  IF t.err # "nil"
             THEN [copy |-> None, resp |-> r, err |-> t.err]
             ELSE [copy |-> Some([status |-> r[1].status, body |-> t.raw]),
                   resp |-> Some([r[1] EXCEPT !.body = t.newReader]),
                   err  |-> "nil"]

\* ------------------------------------------------------------------ rules
\* A URL is a short string of characters 1, 2, 3. A compiled pattern is a
\* literal that may be anchored at either end (the regular expressions
\* lit, ^lit, lit$, ^lit$).
URLs == {<<1, 2>>, <<1, 3>>}
Methods == {"GET", "POST"}

\* regexp.MatchString: the pattern matches somewhere in u.
MatchString(r, u) ==
    \E i \in 0..(Len(u) - Len(r.lit)) :
        /\ SubSeq(u, i + 1, i + Len(r.lit)) = r.lit
        /\ r.bol => i = 0
        /\ r.eol => i + Len(r.lit) = Len(u)

\* EventBuilder.Match(url, method) as saveEvent calls it.
Match(b, url, method) ==
    IF b.Method # method THEN FALSE
    ELSE IF ~MatchString(b.r, url) THEN FALSE
    ELSE TRUE

\* The builders a configuration can hold.
RuleSet ==
    {[Method |-> "GET", r |-> [lit |-> <<1>>, bol |-> FALSE, eol |-> FALSE]],
     [Method |-> "GET", r |-> [lit |-> <<1, 2>>, bol |-> TRUE, eol |-> TRUE]]}

RECURSIVE SeqsUpTo(_, _)
SeqsUpTo(S, n) ==
    IF n = 0 THEN {<<>>}
    ELSE LET shorter == SeqsUpTo(S, n - 1)
         IN  shorter \cup {Append(q, x) : q \in {t \in shorter : Len(t) = n - 1}, x \in S}

\* A constructor that registers the Kafka sender whatever the configuration
\* says.
NewProxyAuditLogDecoratorAlwaysKafka(bs, kafkaEnabled) ==
    [builders |-> bs, senders |-> <<"stdout", "kafka">>]

\* NewProxyAuditLogDecoratorFromEventBuilders: the stdout sender, and the
\* Kafka sender when the configuration enables it.
NewProxyAuditLogDecoratorFromEventBuilders(bs, kafkaEnabled) ==
    [builders |-> bs,
     senders  |-> IF kafkaEnabled THEN <<"stdout", "kafka">> ELSE <<"stdout">>]

\* -------------------------------------------------------------- RoundTrip
Requests ==
    {[url |-> u, method |-> m, body |-> b] :
        u \in URLs, m \in Methods, b \in {None} \cup {Some(st) : st \in Streams}}
Responses ==
    {[status |-> 200, body |-> b] : b \in {None} \cup {Some(st) : st \in Streams}}

streamFrame == UNCHANGED streamVars
extFrame == UNCHANGED extVars
callerFrame == UNCHANGED <<callerPc, callerBytes, callerErr>>
noTask == UNCHANGED <<taskPc, taskReq, taskResp, taskErr, bi, si, sent>>

\* RoundTrip as its first revision had it: forward whatever comes, start
\* saveEvent, hand back what the proxy returned.
RoundTripFirstRevision(r, fresp, ferr) ==
    /\ rtPc = "idle"
    /\ rtPc' = "returned"
    /\ req' = r
    /\ fwdCalled' = TRUE /\ fwdResp' = fresp /\ fwdErr' = ferr
    /\ retResp' = fresp /\ retErr' = ferr
    /\ taskPc' = IF r = None THEN "done" ELSE "run"
    /\ taskReq' = IF r = None THEN None
                  ELSE Some([url |-> r[1].url, method |-> r[1].method, body |-> <<>>])
    /\ taskResp' = None
    /\ taskErr' = ferr
    /\ UNCHANGED <<builders, senders, bi, si, sent>>
    /\ callerFrame
    /\ streamFrame /\ extFrame

\* RoundTrip(req), lines 54-84, with the proxy answering (fresp, ferr) when
\* it is asked.
RoundTripCall(r, fresp, ferr) ==
    /\ rtPc = "idle"
    /\ rtPc' = "returned"
    /\ req' = r
    /\ LET requestCopy == NewRequestWithBytesBody(r)
           responseCopy == NewResponseWithBytesBody(fresp)
       IN  IF r = None
           THEN \* lines 55-59
                /\ fwdCalled' = FALSE /\ fwdResp' = None /\ fwdErr' = "nil"
                /\ retResp' = None /\ retErr' = "RoundTrip with nil request"
                /\ noTask
           ELSE IF requestCopy.err # "nil"
           THEN \* lines 62-67
                /\ fwdCalled' = FALSE /\ fwdResp' = None /\ fwdErr' = "nil"
                /\ retResp' = None /\ retErr' = requestCopy.err
                /\ noTask
           ELSE \* line 70
                /\ fwdCalled' = TRUE /\ fwdResp' = fresp /\ fwdErr' = ferr
                /\ IF responseCopy.err # "nil"
                   THEN \* lines 73-78
                        /\ retResp' = None /\ retErr' = responseCopy.err
                        /\ noTask
                   ELSE \* lines 81-83
                        /\ taskPc' = "run"
                        /\ taskReq' = requestCopy.copy
                        /\ taskResp' = responseCopy.copy
                        /\ taskErr' = ferr
                        /\ UNCHANGED <<bi, si, sent>>
                        /\ retResp' = responseCopy.resp /\ retErr' = "nil"
    /\ UNCHANGED <<builders, senders>>
    /\ callerFrame
    /\ streamFrame /\ extFrame

RoundTrip ==
    \E r \in {None} \cup {Some(x) : x \in Requests},
       fresp \in {None} \cup {Some(x) : x \in Responses},
       ferr \in {"nil", "proxyErr"} :
        RoundTripCall(r, fresp, ferr)

\* -------------------------------------------------------------- saveEvent
\* EventBuilder.Build: every revision returns an Event and a nil error.
Build(b, rq, rs, roundTripError) ==
    [event |-> [builder |-> b], err |-> "nil"]

taskFrame ==
    UNCHANGED <<builders, senders, rtPc, req, fwdCalled, fwdResp, fwdErr, retResp, retErr,
                taskReq, taskResp, taskErr>>

\* saveEvent, lines 93-94: the builder at hand does not match; on to the next.
SaveEventSkip ==
    /\ taskPc = "run"
    /\ bi <= Len(builders)
    /\ ~Match(builders[bi], taskReq[1].url, taskReq[1].method)
    /\ bi' = bi + 1
    /\ UNCHANGED <<taskPc, si, sent>>
    /\ taskFrame /\ callerFrame /\ streamFrame /\ extFrame

\* A loop over the senders that stops after the first.
SaveEventSendFirstOnly ==
    /\ taskPc = "run"
    /\ bi <= Len(builders)
    /\ Match(builders[bi], taskReq[1].url, taskReq[1].method)
    /\ Build(builders[bi], taskReq, taskResp, taskErr).err = "nil"
    /\ sent' = Append(sent, [sender |-> senders[si], rule |-> bi])
    /\ bi' = bi + 1
    /\ UNCHANGED <<taskPc, si>>
    /\ taskFrame /\ callerFrame /\ streamFrame /\ extFrame

\* saveEvent, lines 94-98: the builder at hand matches and builds its Event;
\* s.Send(*event) for the sender at hand, then on to the next sender or,
\* after the last, to the next builder.
SaveEventSend ==
    /\ taskPc = "run"
    /\ bi <= Len(builders)
    /\ Match(builders[bi], taskReq[1].url, taskReq[1].method)
    /\ Build(builders[bi], taskReq, taskResp, taskErr).err = "nil"
    /\ sent' = Append(sent, [sender |-> senders[si], rule |-> bi])
    /\ IF si < Len(senders)
       THEN si' = si + 1 /\ bi' = bi
       ELSE si' = 1 /\ bi' = bi + 1
    /\ UNCHANGED taskPc
    /\ taskFrame /\ callerFrame /\ streamFrame /\ extFrame

\* saveEvent, line 104: the loop over the builders is over.
SaveEventReturn ==
    /\ taskPc = "run"
    /\ bi > Len(builders)
    /\ taskPc' = "done"
    /\ UNCHANGED <<bi, si, sent>>
    /\ taskFrame /\ callerFrame /\ streamFrame /\ extFrame

\* ------------------------------------------------------------- the caller
\* The caller reads the body of the response it got to the end
\* (ioutil.ReadAll) and closes it.
CallerDrain ==
    /\ rtPc = "returned"
    /\ callerPc = "idle"
    /\ retResp # None
    /\ retResp[1].body # None
    /\ LET st == retResp[1].body[1]
           r == ReadAll(st, 0, <<>>)
       IN  /\ callerBytes' = r.bytes
           /\ callerErr' = IF r.err # "nil" THEN r.err
                           ELSE IF st.fails = "close" THEN "closeErr" ELSE "nil"
    /\ callerPc' = "drained"
    /\ UNCHANGED <<builders, senders, rtPc, req, fwdCalled, fwdResp, fwdErr, retResp, retErr,
                   taskPc, taskReq, taskResp, taskErr, bi, si, sent>>
    /\ streamFrame /\ extFrame

InitRT ==
    /\ StreamInit
    /\ rcData = <<>>
    /\ \E bs \in SeqsUpTo(RuleSet, MaxRules), kafkaEnabled \in BOOLEAN :
          LET d == NewProxyAuditLogDecoratorFromEventBuilders(bs, kafkaEnabled)
          IN  builders = d.builders /\ senders = d.senders
    /\ RTIdle
    /\ ExtIdle

NextRT ==
    \/ RoundTrip
    \/ SaveEventSkip
    \/ SaveEventSend
    \/ SaveEventReturn
    \/ CallerDrain

SpecRT == InitRT /\ [][NextRT]_vars

\* ============================================ RoundTrip, statement by statement
\* Specification SpecPath follows the same RoundTrip through its statements,
\* with saveEvent running beside it from the go statement on, and with
\* senders that may never return from Send.
PathRequests ==
    {[url |-> u, method |-> "GET", body |-> b] :
        u \in URLs,
        b \in {None, Some(BytesReader(<<1>>)),
               Some([data |-> <<1>>, eofWithData |-> TRUE, fails |-> "read"])}}
PathResponses ==
    {[status |-> 200, body |-> b] :
        b \in {None, Some(BytesReader(<<1>>)),
               Some([data |-> <<1>>, eofWithData |-> TRUE, fails |-> "close"])}}

exchangeFrame == UNCHANGED <<builders, senders, callerPc, callerBytes, callerErr>>
pathRest == UNCHANGED <<streamVars, fnVars, firstVars, sealVars, loadVars, lateVars>>
noTaskYet == UNCHANGED <<taskPc, taskReq, taskResp, taskErr, bi, si, sent, goCount, sendBlocks>>

\* Lines 54-59: the request is nil, or it is let in.
RoundTripEnter(r) ==
    /\ rtPc = "idle"
    /\ req' = r
    /\ IF r = None
       THEN rtPc' = "returned" /\ retResp' = None /\ retErr' = "RoundTrip with nil request"
       ELSE rtPc' = "received" /\ UNCHANGED <<retResp, retErr>>
    /\ UNCHANGED <<fwdCalled, fwdResp, fwdErr, rtRequestCopy, rtResponseCopy>>
    /\ noTaskYet /\ exchangeFrame /\ pathRest

\* Lines 61-67: requestCopy, err := NewRequestWithBytesBody(req).
RoundTripCopyRequest ==
    /\ rtPc = "received"
    /\ LET c == NewRequestWithBytesBody(req)
       IN  IF c.err # "nil"
           THEN /\ rtPc' = "returned" /\ retResp' = None /\ retErr' = c.err
                /\ UNCHANGED rtRequestCopy
           ELSE /\ rtPc' = "captured" /\ rtRequestCopy' = c.copy
                /\ UNCHANGED <<retResp, retErr>>
    /\ UNCHANGED <<req, fwdCalled, fwdResp, fwdErr, rtResponseCopy>>
    /\ noTaskYet /\ exchangeFrame /\ pathRest

\* Line 70: resp, reqErr := d.proxy.RoundTrip(req), the proxy answering
\* (fresp, ferr).
RoundTripForward(fresp, ferr) ==
    /\ rtPc = "captured"
    /\ rtPc' = "forwarded"
    /\ fwdCalled' = TRUE /\ fwdResp' = fresp /\ fwdErr' = ferr
    /\ UNCHANGED <<req, retResp, retErr, rtRequestCopy, rtResponseCopy>>
    /\ noTaskYet /\ exchangeFrame /\ pathRest

\* Lines 72-78: responseCopy, err := NewResponseWithBytesBody(resp).
RoundTripCopyResponse ==
    /\ rtPc = "forwarded"
    /\ LET c == NewResponseWithBytesBody(fwdResp)
       IN  IF c.err # "nil"
           THEN /\ rtPc' = "returned" /\ retResp' = None /\ retErr' = c.err
                /\ UNCHANGED rtResponseCopy
           ELSE /\ rtPc' = "copied" /\ rtResponseCopy' = c.copy
                /\ UNCHANGED <<retResp, retErr>>
    /\ UNCHANGED <<req, fwdCalled, fwdResp, fwdErr, rtRequestCopy>>
    /\ noTaskYet /\ exchangeFrame /\ pathRest

\* A go statement that starts saveEvent twice.
RoundTripGoTwice ==
    /\ rtPc = "copied"
    /\ rtPc' = "scheduled"
    /\ taskPc' = "run"
    /\ taskReq' = rtRequestCopy /\ taskResp' = rtResponseCopy /\ taskErr' = fwdErr
    /\ goCount' = goCount + 2
    /\ UNCHANGED <<req, fwdCalled, fwdResp, fwdErr, retResp, retErr, rtRequestCopy,
                   rtResponseCopy, bi, si, sent, sendBlocks>>
    /\ exchangeFrame /\ pathRest

\* Line 81: go d.saveEvent(requestCopy, responseCopy, reqErr).
RoundTripGo ==
    /\ rtPc = "copied"
    /\ rtPc' = "scheduled"
    /\ taskPc' = "run"
    /\ taskReq' = rtRequestCopy /\ taskResp' = rtResponseCopy /\ taskErr' = fwdErr
    /\ goCount' = goCount + 1
    /\ UNCHANGED <<req, fwdCalled, fwdResp, fwdErr, retResp, retErr, rtRequestCopy,
                   rtResponseCopy, bi, si, sent, sendBlocks>>
    /\ exchangeFrame /\ pathRest

\* saveEvent called in place, without go: RoundTrip goes on when it is over.
RoundTripReturnAfterSaveEvent ==
    /\ rtPc = "scheduled"
    /\ taskPc = "done"
    /\ rtPc' = "returned"
    /\ retResp' = NewResponseWithBytesBody(fwdResp).resp /\ retErr' = "nil"
    /\ UNCHANGED <<req, fwdCalled, fwdResp, fwdErr, rtRequestCopy, rtResponseCopy>>
    /\ noTaskYet /\ exchangeFrame /\ pathRest

\* Line 83: return resp, nil (resp with the body NewResponseWithBytesBody
\* gave it).
RoundTripReturn ==
    /\ rtPc = "scheduled"
    /\ rtPc' = "returned"
    /\ retResp' = NewResponseWithBytesBody(fwdResp).resp /\ retErr' = "nil"
    /\ UNCHANGED <<req, fwdCalled, fwdResp, fwdErr, rtRequestCopy, rtResponseCopy>>
    /\ noTaskYet /\ exchangeFrame /\ pathRest

pathTaskFrame ==
    UNCHANGED <<rtPc, req, fwdCalled, fwdResp, fwdErr, retResp, retErr,
                taskReq, taskResp, taskErr, rtRequestCopy, rtResponseCopy, goCount, sendBlocks>>

\* saveEvent, lines 93-96: the builder at hand matches and builds its Event;
\* s.Send(*event) is called for the sender at hand.
SaveEventSendCall ==
    /\ taskPc = "run"
    /\ bi <= Len(builders)
    /\ Match(builders[bi], taskReq[1].url, taskReq[1].method)
    /\ Build(builders[bi], taskReq, taskResp, taskErr).err = "nil"
    /\ sent' = Append(sent, [sender |-> senders[si], rule |-> bi])
    /\ taskPc' = "inSend"
    /\ UNCHANGED <<bi, si>>
    /\ pathTaskFrame /\ exchangeFrame /\ pathRest

\* saveEvent, lines 95-97: Send has returned; on to the next sender or,
\* after the last, to the next builder.
SaveEventSendReturn ==
    /\ taskPc = "inSend"
    /\ senders[si] \notin sendBlocks
    /\ IF si < Len(senders)
       THEN si' = si + 1 /\ bi' = bi
       ELSE si' = 1 /\ bi' = bi + 1
    /\ taskPc' = "run"
    /\ UNCHANGED sent
    /\ pathTaskFrame /\ exchangeFrame /\ pathRest

SenderNames(ss) == {ss[j] : j \in 1..Len(ss)}

InitPath ==
    /\ StreamInit
    /\ rcData = <<>>
    /\ \E bs \in SeqsUpTo(RuleSet, MaxRules), kafkaEnabled \in BOOLEAN :
          LET d == NewProxyAuditLogDecoratorFromEventBuilders(bs, kafkaEnabled)
          IN  builders = d.builders /\ senders = d.senders
    /\ RTIdle
    /\ rtRequestCopy = None /\ rtResponseCopy = None
    /\ goCount = 0
    /\ sendBlocks \in {{}} \cup {{n} : n \in SenderNames(senders)}
    /\ fnIn = None /\ fnOut = None
    /\ FirstIdle
    /\ SealIdle
    /\ LoadIdle
    /\ LateIdle

NextPath ==
    \/ \E r \in {None} \cup {Some(x) : x \in PathRequests} : RoundTripEnter(r)
    \/ RoundTripCopyRequest
    \/ \E fresp \in {None} \cup {Some(x) : x \in PathResponses}, ferr \in {"nil", "proxyErr"} :
          RoundTripForward(fresp, ferr)
    \/ RoundTripCopyResponse
    \/ RoundTripGo
    \/ RoundTripReturn
    \/ SaveEventSkip
    \/ SaveEventSendCall
    \/ SaveEventSendReturn
    \/ SaveEventReturn

SpecPath == InitPath /\ [][NextPath]_vars

\* The goroutine that called RoundTrip keeps running, and the proxy answers.
\* Nothing is assumed of saveEvent.
FairPath ==
    /\ SpecPath
    /\ WF_vars(RoundTripCopyRequest)
    /\ WF_vars(\E fresp \in {None} \cup {Some(x) : x \in PathResponses},
                  ferr \in {"nil", "proxyErr"} : RoundTripForward(fresp, ferr))
    /\ WF_vars(RoundTripCopyResponse)
    /\ WF_vars(RoundTripGo)
    /\ WF_vars(RoundTripReturn)

\* ================================== the revision whose Build reads the bodies
\* Specification SpecFirst is the first revision of the decorator
\* (RoundTrip and saveEvent of unnamed/part_006) with the Build and
\* filterBody of auditlog/event_builder.go, which read req.Body and
\* resp.Body with ioutil.ReadAll: the very streams the proxy and the caller
\* read. The proxy has read the request's body to the end and closed it when
\* it answers; the caller reads the response's body Read by Read and then
\* closes it, while saveEvent runs.
Bodies == {"req", "resp"}

firstRest == UNCHANGED <<streamVars, rtRequestCopy, rtResponseCopy, goCount, sendBlocks, fnVars,
                         sealVars, loadVars, lateVars,
                         rtPc, req, fwdCalled, fwdResp, fwdErr, retResp, retErr,
                         taskPc, taskReq, taskResp, taskErr, bi, si, sent,
                         callerPc, callerBytes, callerErr, builders, senders>>

\* One Read of body b of the transport: the next ChunkLen bytes at most,
\* io.EOF at the end, an error once the body is closed.
WireRead(b) ==
    LET w == wire[b]
        left == Len(w.data) - w.pos
        n == Min(left, ChunkLen)
    IN  IF w.closed THEN [bytes |-> <<>>, err |-> "err"]
        ELSE IF left = 0 THEN [bytes |-> <<>>, err |-> "EOF"]
        ELSE [bytes |-> SubSeq(w.data, w.pos + 1, w.pos + n), err |-> "nil"]

\* RoundTrip of unnamed/part_006: resp, err := d.p.RoundTrip(r);
\* go d.saveEvent(r, resp, err); return resp, err.
FirstRoundTrip(u, reqData, respData) ==
    /\ firstPc = "idle"
    /\ firstPc' = "returned"
    /\ firstReq' = Some([url |-> u, method |-> "GET"])
    /\ wire' = [req  |-> [data |-> reqData, pos |-> Len(reqData), closed |-> TRUE],
                resp |-> [data |-> respData, pos |-> 0, closed |-> FALSE]]
    /\ readBy' = [req |-> {"proxy"}, resp |-> {}]
    /\ auditPc' = "loop"
    /\ UNCHANGED <<auditBi, auditBuf, auditViews, readerPc, readerBytes>>
    /\ firstRest

\* saveEvent of part_006: the builder at hand does not match.
AuditSkip ==
    /\ auditPc = "loop"
    /\ auditBi <= Len(builders)
    /\ ~Match(builders[auditBi], firstReq[1].url, firstReq[1].method)
    /\ auditBi' = auditBi + 1
    /\ UNCHANGED <<wire, readBy, firstPc, firstReq, auditPc, auditBuf, auditViews,
                   readerPc, readerBytes>>
    /\ firstRest

\* Build, line 88: filterBody(req.Body, ...), whose ioutil.ReadAll reads the
\* request's body from where the proxy left it.
AuditReadReq ==
    /\ auditPc = "loop"
    /\ auditBi <= Len(builders)
    /\ Match(builders[auditBi], firstReq[1].url, firstReq[1].method)
    /\ LET o == WireRead("req")
       IN  auditBuf' = [req |-> o.bytes, resp |-> <<>>]
    /\ readBy' = [readBy EXCEPT !["req"] = @ \cup {"audit"}]
    /\ auditPc' = "respBody"
    /\ UNCHANGED <<wire, firstPc, firstReq, auditBi, auditViews, readerPc, readerBytes>>
    /\ firstRest

\* Build, line 99: filterBody(resp.Body, ...): one Read of its
\* ioutil.ReadAll. At io.EOF the Build is over with what it has read; at an
\* error filterBody gives an empty result.
AuditReadResp ==
    /\ auditPc = "respBody"
    /\ LET o == WireRead("resp")
       IN  /\ readBy' = [readBy EXCEPT !["resp"] = @ \cup {"audit"}]
           /\ IF o.err = "nil"
              THEN /\ wire' = [wire EXCEPT !["resp"].pos = @ + Len(o.bytes)]
                   /\ auditBuf' = [auditBuf EXCEPT !["resp"] = @ \o o.bytes]
                   /\ UNCHANGED <<auditPc, auditBi, auditViews>>
              ELSE /\ auditViews' = Append(auditViews,
                                           IF o.err = "EOF" THEN auditBuf
                                           ELSE [auditBuf EXCEPT !["resp"] = <<>>])
                   /\ auditBi' = auditBi + 1
                   /\ auditPc' = "loop"
                   /\ UNCHANGED <<wire, auditBuf>>
    /\ UNCHANGED <<firstPc, firstReq, readerPc, readerBytes>>
    /\ firstRest

\* saveEvent: the range over the builders is over.
AuditReturn ==
    /\ auditPc = "loop"
    /\ auditBi > Len(builders)
    /\ auditPc' = "done"
    /\ UNCHANGED <<wire, readBy, firstPc, firstReq, auditBi, auditBuf, auditViews,
                   readerPc, readerBytes>>
    /\ firstRest

\* The caller's ioutil.ReadAll(resp.Body): one Read.
ReaderRead ==
    /\ firstPc = "returned"
    /\ readerPc \in {"idle", "reading"}
    /\ LET o == WireRead("resp")
       IN  /\ readBy' = [readBy EXCEPT !["resp"] = @ \cup {"caller"}]
           /\ wire' = [wire EXCEPT !["resp"].pos = @ + Len(o.bytes)]
           /\ readerBytes' = readerBytes \o o.bytes
           /\ readerPc' = IF o.err = "nil" THEN "reading" ELSE "eof"
    /\ UNCHANGED <<firstPc, firstReq, auditPc, auditBi, auditBuf, auditViews>>
    /\ firstRest

\* The caller's resp.Body.Close().
ReaderClose ==
    /\ readerPc = "eof"
    /\ readerPc' = "closed"
    /\ wire' = [wire EXCEPT !["resp"].closed = TRUE]
    /\ UNCHANGED <<readBy, firstPc, firstReq, auditPc, auditBi, auditBuf, auditViews,
                   readerBytes>>
    /\ firstRest

InitFirst ==
    /\ StreamInit
    /\ rcData = <<>>
    /\ builders \in SeqsUpTo(RuleSet, MaxRules)
    /\ senders = <<"stdout">>
    /\ RTIdle
    /\ ExtIdle

NextFirst ==
    \/ \E u \in URLs, reqData \in ByteSeqs, respData \in ByteSeqs :
          FirstRoundTrip(u, reqData, respData)
    \/ AuditSkip
    \/ AuditReadReq
    \/ AuditReadResp
    \/ AuditReturn
    \/ ReaderRead
    \/ ReaderClose

SpecFirst == InitFirst /\ [][NextFirst]_vars

\* ================================================= Match with status codes
\* Specification SpecMatch applies Match(url, method, statusCode) of the
\* revisions unnamed/part_001 and unnamed/part_003 to one rule and one
\* request.

\* A method is a string of letters; each letter has an upper and a lower
\* case, "-" has none.
Upper == [c \in {"G", "g", "T", "t", "-"} |->
            CASE c = "g" -> "G" [] c = "t" -> "T" [] OTHER -> c]

\* strings.EqualFold: the strings have the same length and their characters
\* are pairwise equal under case folding.
RECURSIVE EqualFold(_, _)
EqualFold(x, y) ==
    IF x = <<>> \/ y = <<>> THEN x = y
    ELSE IF Head(x) = Head(y) \/ Upper[Head(x)] = Upper[Head(y)]
         THEN EqualFold(Tail(x), Tail(y))
         ELSE FALSE

\* intInSlice(a, list): the loop over list.
RECURSIVE intInSlice(_, _)
intInSlice(a, list) ==
    IF list = <<>> THEN FALSE
    ELSE IF Head(list) = a THEN TRUE
    ELSE intInSlice(a, Tail(list))

\* Match with the methods compared as they are, as the two-argument Match of
\* event_builder.go compares them.
MatchCodesExactMethod(b, url, method, statusCode) ==
    LET responseCodeMatches ==
            Len(b.ResponseCodes) = 0 \/ intInSlice(statusCode, b.ResponseCodes)
    IN  responseCodeMatches /\ b.Method = method /\ MatchString(b.r, url)

\* EventBuilder.Match(url, method, statusCode).
MatchCodes(b, url, method, statusCode) ==
    LET responseCodeMatches ==
            Len(b.ResponseCodes) = 0 \/ intInSlice(statusCode, b.ResponseCodes)
    IN  responseCodeMatches /\ EqualFold(b.Method, method) /\ MatchString(b.r, url)

MethodStrings == {<<>>, <<"G">>, <<"g">>, <<"G", "T">>, <<"g", "t">>, <<"G", "t">>,
                  <<"T", "G">>, <<"G", "-">>}
MatchPatterns ==
    {[lit |-> l, bol |-> bo, eol |-> eo] :
        l \in {<<>>, <<1>>, <<1, 2>>}, bo \in BOOLEAN, eo \in BOOLEAN}
MatchURLs == {<<>>, <<1>>, <<1, 2>>, <<2, 1>>, <<1, 2, 3>>}
CodeLists == {<<>>, <<200>>, <<404, 200>>, <<404>>}
StatusCodes == {0, 200, 404}

MatchInputs ==
    [rule : [Method : MethodStrings, r : MatchPatterns, ResponseCodes : CodeLists],
     url : MatchURLs, method : {<<"G">>, <<"g", "t">>, <<"G", "T">>, <<"G", "-">>},
     statusCode : StatusCodes]

fnRest == UNCHANGED <<streamVars, rtVars, pathVars, firstVars, sealVars, loadVars, lateVars>>

ApplyMatch ==
    /\ fnOut = None
    /\ fnIn \in MatchInputs
    /\ fnOut' = Some(MatchCodes(fnIn.rule, fnIn.url, fnIn.method, fnIn.statusCode))
    /\ UNCHANGED fnIn
    /\ fnRest

InitMatchInputs ==
    /\ StreamInit
    /\ rcData = <<>>
    /\ builders = <<>>
    /\ senders = <<>>
    /\ RTIdle
    /\ rtRequestCopy = None /\ rtResponseCopy = None
    /\ goCount = 0
    /\ sendBlocks = {}
    /\ FirstIdle
    /\ SealIdle
    /\ LoadIdle
    /\ LateIdle
    /\ fnIn \in MatchInputs
    /\ fnOut = None

NextMatch == ApplyMatch

SpecMatch == InitMatchInputs /\ [][NextMatch]_vars

\* ============================================================== filterBody
\* Specification SpecFilter applies filterBody to one body and one white
\* list, in its two revisions: the one of auditlog/event_builder.go, which
\* decodes the body into a map and walks it, and the one of
\* unnamed/part_003 (and part_001), which asks gjson for each key.
\*
\* A JSON value is [k |-> kind, v |-> content]: a number, null, an array (a
\* sequence of values) or an object (a function from names to values). A
\* name and a white-list key are strings of the characters "a", "0", ".".
JNum(n) == [k |-> "num", v |-> n]
JNull == [k |-> "null", v |-> 0]
JArr(items) == [k |-> "arr", v |-> items]
JObj(fields) == [k |-> "obj", v |-> fields]

EmptyMap == [x \in {} |-> 0]

\* result[key] = value
MapSet(res, key, value) == [x \in DOMAIN res \cup {key} |->
                                  IF x = key THEN value ELSE res[x]]

\* strings.Split(key, "."): the pieces between the dots, from position i on,
\* cur being the piece under way.
RECURSIVE SplitFrom(_, _, _)
SplitFrom(key, i, cur) ==
    IF i > Len(key) THEN <<cur>>
    ELSE IF key[i] = "." THEN <<cur>> \o SplitFrom(key, i + 1, <<>>)
    ELSE SplitFrom(key, i + 1, Append(cur, key[i]))

Split(key) == SplitFrom(key, 1, <<>>)

\* json.Unmarshal(bb, &body) with body a map[string]interface{}: an error
\* for what is not JSON and for JSON that is neither an object nor null;
\* null leaves the map nil, which holds nothing.
Unmarshal(doc) ==
    IF ~doc.valid THEN [err |-> "err", body |-> EmptyMap]
    ELSE IF doc.value.k = "obj" THEN [err |-> "nil", body |-> doc.value.v]
    ELSE IF doc.value.k = "null" THEN [err |-> "nil", body |-> EmptyMap]
    ELSE [err |-> "err", body |-> EmptyMap]

\* The loop over strings.Split(key, ".") of lines 129-141: value is what has
\* been reached, ks the pieces still to go.
RECURSIVE WalkKeys(_, _)
WalkKeys(value, ks) ==
    IF ks = <<>> THEN [ok |-> TRUE, value |-> value]
    ELSE IF value.k # "obj" THEN [ok |-> FALSE, value |-> JNull]
    ELSE IF Head(ks) \notin DOMAIN value.v THEN [ok |-> FALSE, value |-> JNull]
    ELSE WalkKeys(value.v[Head(ks)], Tail(ks))

\* The loop over the white list of lines 127-143.
RECURSIVE WalkWhiteList(_, _, _)
WalkWhiteList(body, wl, res) ==
    IF wl = <<>> THEN res
    ELSE LET w == WalkKeys(JObj(body), Split(Head(wl)))
         IN  WalkWhiteList(body, Tail(wl),
                           IF w.ok THEN MapSet(res, Head(wl), w.value) ELSE res)

\* filterBody of event_builder.go, the body already read.
filterBodyWalk(doc, wl) ==
    LET u == Unmarshal(doc)
    IN  IF u.err # "nil" THEN EmptyMap
        ELSE WalkWhiteList(u.body, wl, EmptyMap)

\* gjson.GetBytes(body, key) for a key of names and numbers joined by dots:
\* a name selects a member of an object, a number an element of an array.
IsIndex(piece) == piece = <<"0">>
RECURSIVE GjsonGet(_, _)
GjsonGet(value, ks) ==
    IF ks = <<>> THEN [exists |-> TRUE, value |-> value]
    ELSE IF value.k = "obj"
    THEN IF Head(ks) \in DOMAIN value.v
         THEN GjsonGet(value.v[Head(ks)], Tail(ks))
         ELSE [exists |-> FALSE, value |-> JNull]
    ELSE IF value.k = "arr"
    THEN IF IsIndex(Head(ks)) /\ Len(value.v) > 0
         THEN GjsonGet(value.v[1], Tail(ks))
         ELSE [exists |-> FALSE, value |-> JNull]
    ELSE [exists |-> FALSE, value |-> JNull]

\* The loop over the white list of part_003, lines 116-121.
RECURSIVE GjsonWhiteList(_, _, _)
GjsonWhiteList(value, wl, res) ==
    IF wl = <<>> THEN res
    ELSE LET r == GjsonGet(value, Split(Head(wl)))
         IN  GjsonWhiteList(value, Tail(wl),
                            IF r.exists THEN MapSet(res, Head(wl), r.value) ELSE res)

\* filterBody of part_003.
filterBodyGjson(doc, wl) ==
    IF ~doc.valid THEN EmptyMap
    ELSE GjsonWhiteList(doc.value, wl, EmptyMap)

\* The bodies and white lists filterBody is applied to.
Names == {<<"a">>, <<"0">>}
Leaves == {JNum(7), JNull, JArr(<<>>), JArr(<<JNum(7)>>)}
ObjectsOver(vals) == {JObj(f) : f \in UNION {[d -> vals] : d \in SUBSET Names}}
FlatObjects == ObjectsOver(Leaves)
Docs == {[valid |-> FALSE, value |-> JNull]}
        \cup {[valid |-> TRUE, value |-> x] :
                 x \in Leaves \cup FlatObjects \cup ObjectsOver(Leaves \cup FlatObjects)}
FilterKeys == {<<"a">>, <<"0">>, <<"a", ".", "a">>, <<"a", ".", "0">>,
               <<"a", ".", "0", ".", "a">>, <<"a", ".">>, <<>>}
\* The keys that are names and numbers joined by dots.
PlainKeys == {key \in FilterKeys : \A i \in 1..Len(Split(key)) : Split(key)[i] # <<>>}
FilterInputs == [doc : Docs, wl : {<<>>} \cup {<<x>> : x \in FilterKeys}
                                \cup {<<x, y>> : x \in {<<"a", ".", "a">>, <<"a">>},
                                                 y \in FilterKeys}]

ApplyFilterBodyWalk ==
    /\ fnOut = None
    /\ fnIn \in FilterInputs
    /\ fnOut' = Some(filterBodyWalk(fnIn.doc, fnIn.wl))
    /\ UNCHANGED fnIn
    /\ fnRest

ApplyFilterBodyGjson ==
    /\ fnOut = None
    /\ fnIn \in FilterInputs
    /\ \A i \in 1..Len(fnIn.wl) : fnIn.wl[i] \in PlainKeys
    /\ fnOut' = Some(filterBodyGjson(fnIn.doc, fnIn.wl))
    /\ UNCHANGED fnIn
    /\ fnRest

InitFilter ==
    /\ StreamInit
    /\ rcData = <<>>
    /\ builders = <<>>
    /\ senders = <<>>
    /\ RTIdle
    /\ rtRequestCopy = None /\ rtResponseCopy = None
    /\ goCount = 0
    /\ sendBlocks = {}
    /\ FirstIdle
    /\ SealIdle
    /\ LoadIdle
    /\ LateIdle
    /\ fnIn \in FilterInputs
    /\ fnOut = None

NextFilter ==
    \/ ApplyFilterBodyWalk
    \/ ApplyFilterBodyGjson

SpecFilter == InitFilter /\ [][NextFilter]_vars


\* ===================================================== waiting for the seals
\* Specification SpecSeal follows one exchange of the revision whose Build
\* (unnamed/part_001) takes the bodies from their ReadCloserWithBuffer with
\* GetBufBlocking. RoundTrip has put the request's body and the response's
\* body in a ReadCloserWithBuffer each; the proxy closes the first, the
\* caller the second, unless the client has gone away; the audit task runs
\* Match and Build for each builder and sends each Event to each sender.

\* The rules of this revision: Match looks at the response code, Build at
\* Filter.TakeWholeResponseBody.
SealRules ==
    {[Method |-> <<"g">>, r |-> [lit |-> <<1>>, bol |-> FALSE, eol |-> FALSE],
      ResponseCodes |-> <<>>, TakeWholeResponseBody |-> TRUE],
     [Method |-> <<"G">>, r |-> [lit |-> <<1, 2>>, bol |-> TRUE, eol |-> TRUE],
      ResponseCodes |-> <<200>>, TakeWholeResponseBody |-> FALSE]}

sealRest == UNCHANGED <<streamVars, rtVars, pathVars, fnVars, firstVars, loadVars, lateVars>>

\* The status code Match is given: that of the response, 0 without one.
SealStatus == IF sealResp = None THEN 0 ELSE sealResp[1].StatusCode

SealMatches(i) == MatchCodes(builders[i], sealReq[1].url, sealReq[1].method, SealStatus)

\* RoundTrip: the bodies are wrapped, the proxy has answered with a response
\* or without one, the audit task is started and RoundTrip returns.
SealRoundTrip(u, rs, gone) ==
    /\ sealPc = "idle"
    /\ gone => rs # None
    /\ sealPc' = "returned"
    /\ sealReq' = Some([url |-> u, method |-> <<"G">>])
    /\ sealResp' = rs
    /\ sealGone' = gone
    /\ buildPc' = "loop"
    /\ UNCHANGED <<sealReady, sealWaiting, sealClosePc, sealLeft, buildBi, buildSi, sealEvents>>
    /\ sealRest

closeFrame == UNCHANGED <<sealPc, sealReq, sealResp, sealGone, buildBi, buildSi, sealEvents>>

\* Close is called on a body: on the request's by the proxy, on the
\* response's by the caller that is still there. Line 63: r.rc.Close().
SealCloseCall(b) ==
    /\ sealPc = "returned"
    /\ sealClosePc[b] = "idle"
    /\ b = "resp" => (sealResp # None /\ ~sealGone)
    /\ sealClosePc' = [sealClosePc EXCEPT ![b] = "seal"]
    /\ UNCHANGED <<sealReady, sealWaiting, sealLeft, buildPc>>
    /\ closeFrame
    /\ sealRest

\* Lines 65-67: *r.bufferReady = true under r.m.
SealCloseSeal(b) ==
    /\ sealClosePc[b] = "seal"
    /\ sealReady' = [sealReady EXCEPT ![b] = TRUE]
    /\ sealClosePc' = [sealClosePc EXCEPT ![b] = "range"]
    /\ UNCHANGED <<sealWaiting, sealLeft, buildPc>>
    /\ closeFrame
    /\ sealRest

\* Line 69: the range loop takes *r.waiting as it is.
SealCloseRange(b) ==
    /\ sealClosePc[b] = "range"
    /\ sealLeft' = [sealLeft EXCEPT ![b] = sealWaiting[b]]
    /\ sealClosePc' = [sealClosePc EXCEPT ![b] = "send"]
    /\ UNCHANGED <<sealReady, sealWaiting, buildPc>>
    /\ closeFrame
    /\ sealRest

\* Line 73: the loop is over, Close returns.
SealCloseReturn(b) ==
    /\ sealClosePc[b] = "send"
    /\ sealLeft[b] = 0
    /\ sealClosePc' = [sealClosePc EXCEPT ![b] = "done"]
    /\ UNCHANGED <<sealReady, sealWaiting, sealLeft, buildPc>>
    /\ closeFrame
    /\ sealRest

\* Where Build goes on after each of its GetBufBlocking calls.
AfterReq == IF sealResp = None THEN "built" ELSE "respGate"
AfterResp == IF builders[buildBi].TakeWholeResponseBody THEN "fullGate" ELSE "built"
AfterGate == [pc \in {"reqRecv", "respRecv", "fullRecv"} |->
                CASE pc = "reqRecv" -> AfterReq
                  [] pc = "respRecv" -> AfterResp
                  [] OTHER -> "built"]
BodyOf == [pc \in {"reqRecv", "respRecv", "fullRecv"} |->
             IF pc = "reqRecv" THEN "req" ELSE "resp"]

\* Line 70 of Close and line 85 of GetBufBlocking: the send and the receive
\* on the channel Build waits at.
SealRendezvous(b) ==
    /\ sealClosePc[b] = "send"
    /\ sealLeft[b] > 0
    /\ buildPc \in DOMAIN BodyOf
    /\ BodyOf[buildPc] = b
    /\ sealLeft' = [sealLeft EXCEPT ![b] = @ - 1]
    /\ buildPc' = AfterGate[buildPc]
    /\ UNCHANGED <<sealReady, sealWaiting, sealClosePc>>
    /\ closeFrame
    /\ sealRest

buildFrame == UNCHANGED <<sealPc, sealReq, sealResp, sealGone, sealReady, sealClosePc, sealLeft>>

\* The loop over the builders: one that does not match is passed over.
BuildLoopSkip ==
    /\ buildPc = "loop"
    /\ buildBi <= Len(builders)
    /\ ~SealMatches(buildBi)
    /\ buildBi' = buildBi + 1
    /\ UNCHANGED <<buildPc, buildSi, sealWaiting, sealEvents>>
    /\ buildFrame
    /\ sealRest

\* Build is called for one that matches; req is not nil (line 75).
BuildCall ==
    /\ buildPc = "loop"
    /\ buildBi <= Len(builders)
    /\ SealMatches(buildBi)
    /\ buildPc' = "reqGate"
    /\ UNCHANGED <<buildBi, buildSi, sealWaiting, sealEvents>>
    /\ buildFrame
    /\ sealRest

\* GetBufBlocking that goes on whether the buffer is ready or not.
GetBufGateNoWait(b, at, recv, on) ==
    /\ buildPc = at
    /\ buildPc' = on
    /\ UNCHANGED sealWaiting

\* GetBufBlocking, lines 78-88, called by Build at pc `at`: under r.m, with
\* the buffer ready it goes on, otherwise it appends a channel to *r.waiting
\* and waits at it.
GetBufGate(b, at, recv, on) ==
    /\ buildPc = at
    /\ IF sealReady[b]
       THEN /\ buildPc' = on
            /\ UNCHANGED sealWaiting
       ELSE /\ sealWaiting' = [sealWaiting EXCEPT ![b] = @ + 1]
            /\ buildPc' = recv

\* Build, line 79: the request's body.
BuildReqGate ==
    /\ GetBufGate("req", "reqGate", "reqRecv", AfterReq)
    /\ UNCHANGED <<buildBi, buildSi, sealEvents>>
    /\ buildFrame
    /\ sealRest

\* Build, lines 82-88: the response's body, if there is a response.
BuildRespGate ==
    /\ sealResp # None
    /\ GetBufGate("resp", "respGate", "respRecv", AfterResp)
    /\ UNCHANGED <<buildBi, buildSi, sealEvents>>
    /\ buildFrame
    /\ sealRest

\* Build, lines 90-92: the response's body again for FullResponseBody.
BuildFullGate ==
    /\ GetBufGate("resp", "fullGate", "fullRecv", "built")
    /\ UNCHANGED <<buildBi, buildSi, sealEvents>>
    /\ buildFrame
    /\ sealRest

\* Build has returned the Event; it is sent to the next sender, and after
\* the last one the loop goes to the next builder.
BuildSend ==
    /\ buildPc = "built"
    /\ sealEvents' = Append(sealEvents, <<senders[buildSi], buildBi>>)
    /\ IF buildSi < Len(senders)
       THEN /\ buildSi' = buildSi + 1
            /\ UNCHANGED <<buildPc, buildBi>>
       ELSE /\ buildSi' = 1
            /\ buildBi' = buildBi + 1
            /\ buildPc' = "loop"
    /\ UNCHANGED sealWaiting
    /\ buildFrame
    /\ sealRest

\* The loop is over: the task ends.
BuildReturn ==
    /\ buildPc = "loop"
    /\ buildBi > Len(builders)
    /\ buildPc' = "done"
    /\ UNCHANGED <<buildBi, buildSi, sealWaiting, sealEvents>>
    /\ buildFrame
    /\ sealRest

SealResponses == {None} \cup {Some([StatusCode |-> c]) : c \in {200, 404}}

InitSeal ==
    /\ StreamInit
    /\ rcData = <<>>
    /\ builders \in SeqsUpTo(SealRules, MaxRules)
    /\ senders = <<"stdout", "kafka">>
    /\ RTIdle
    /\ ExtIdle

NextSeal ==
    \/ \E u \in URLs, rs \in SealResponses, gone \in BOOLEAN : SealRoundTrip(u, rs, gone)
    \/ \E b \in Bodies : SealCloseCall(b)
    \/ \E b \in Bodies : SealCloseSeal(b)
    \/ \E b \in Bodies : SealCloseRange(b)
    \/ \E b \in Bodies : SealCloseReturn(b)
    \/ \E b \in Bodies : SealRendezvous(b)
    \/ BuildLoopSkip
    \/ BuildCall
    \/ BuildReqGate
    \/ BuildRespGate
    \/ BuildFullGate
    \/ BuildSend
    \/ BuildReturn

SpecSeal == InitSeal /\ [][NextSeal]_vars

\* Every goroutine that can take a step takes it: the proxy closes the
\* request's body, a caller that is still there closes the response's, and
\* every Send returns.
FairSeal ==
    /\ SpecSeal
    /\ \A b \in Bodies : WF_vars(SealCloseCall(b))
    /\ \A b \in Bodies : WF_vars(SealCloseSeal(b))
    /\ \A b \in Bodies : WF_vars(SealCloseRange(b))
    /\ \A b \in Bodies : WF_vars(SealCloseReturn(b))
    /\ \A b \in Bodies : WF_vars(SealRendezvous(b))
    /\ WF_vars(BuildLoopSkip)
    /\ WF_vars(BuildCall)
    /\ WF_vars(BuildReqGate)
    /\ WF_vars(BuildRespGate)
    /\ WF_vars(BuildFullGate)
    /\ WF_vars(BuildSend)
    /\ WF_vars(BuildReturn)

\* ============================================================ filterHeader
\* Specification SpecHeader applies filterHeader to one header set and one
\* white list, in its two revisions: the one of unnamed/part_003 (h.Values)
\* and the earlier one of auditlog/event_builder.go (h.Get).
\*
\* A header name is a string of the characters "x", "X", "y", "Y", "-".
HeaderUpper == [c \in {"x", "X", "y", "Y", "-"} |->
                  CASE c = "x" -> "X" [] c = "y" -> "Y" [] OTHER -> c]
HeaderLower == [c \in {"x", "X", "y", "Y", "-"} |->
                  CASE c = "X" -> "x" [] c = "Y" -> "y" [] OTHER -> c]

\* textproto.CanonicalMIMEHeaderKey: the first letter and every letter after
\* a "-" in upper case, the others in lower case.
CanonicalMIMEHeaderKey(s) ==
    [i \in 1..Len(s) |->
        IF i = 1 \/ s[i - 1] = "-" THEN HeaderUpper[s[i]] ELSE HeaderLower[s[i]]]

\* http.Header.Values(key): the values stored under the canonical form of
\* key, nil when there are none.
HeaderValues(h, key) ==
    IF CanonicalMIMEHeaderKey(key) \in DOMAIN h THEN h[CanonicalMIMEHeaderKey(key)] ELSE <<>>

\* http.Header.Get(key): the first of them, "" (here 0) when there are none.
HeaderGet(h, key) ==
    IF HeaderValues(h, key) = <<>> THEN 0 ELSE HeaderValues(h, key)[1]

\* A value of the result: a list of strings in the revision of part_003, one
\* string in the earlier one.
StringList(vs) == [k |-> "list", v |-> vs]
OneString(x) == [k |-> "string", v |-> x]

\* filterHeader of part_003, lines 126-137.
RECURSIVE filterHeaderValues(_, _, _)
filterHeaderValues(h, wl, res) ==
    IF wl = <<>> THEN res
    ELSE LET vs == HeaderValues(h, Head(wl))
         IN  filterHeaderValues(h, Tail(wl),
                                IF Len(vs) # 0 THEN MapSet(res, Head(wl), StringList(vs))
                                ELSE res)

\* filterHeader of event_builder.go, lines 149-155.
RECURSIVE filterHeaderGet(_, _, _)
filterHeaderGet(h, wl, res) ==
    IF wl = <<>> THEN res
    ELSE filterHeaderGet(h, Tail(wl), MapSet(res, Head(wl), OneString(HeaderGet(h, Head(wl)))))

\* The header sets, as Header.Add and the parser of messages build them
\* (canonical names, one value or more each), and the white lists.
HeaderNames == {<<"X">>, <<"Y">>, <<"X", "y">>, <<"X", "-", "Y">>}
HeaderSets == UNION {[d -> {<<1>>, <<1, 2>>, <<2, 1>>}] : d \in SUBSET HeaderNames}
HeaderKeys == {<<"x">>, <<"X">>, <<"y">>, <<"X", "y">>, <<"x", "Y">>, <<"X", "Y">>,
               <<"x", "-", "y">>, <<"X", "-", "Y">>, <<"y", "-", "x">>}
HeaderInputs == [h : HeaderSets, wl : SeqsUpTo(HeaderKeys, 2)]

ApplyFilterHeaderValues ==
    /\ fnOut = None
    /\ fnIn \in HeaderInputs
    /\ fnOut' = Some(filterHeaderValues(fnIn.h, fnIn.wl, EmptyMap))
    /\ UNCHANGED fnIn
    /\ fnRest

ApplyFilterHeaderGet ==
    /\ fnOut = None
    /\ fnIn \in HeaderInputs
    /\ fnOut' = Some(filterHeaderGet(fnIn.h, fnIn.wl, EmptyMap))
    /\ UNCHANGED fnIn
    /\ fnRest

InitHeader ==
    /\ StreamInit
    /\ rcData = <<>>
    /\ builders = <<>>
    /\ senders = <<>>
    /\ RTIdle
    /\ rtRequestCopy = None /\ rtResponseCopy = None
    /\ goCount = 0
    /\ sendBlocks = {}
    /\ FirstIdle
    /\ SealIdle
    /\ LoadIdle
    /\ LateIdle
    /\ fnIn \in HeaderInputs
    /\ fnOut = None

NextHeader ==
    \/ ApplyFilterHeaderValues
    \/ ApplyFilterHeaderGet

SpecHeader == InitHeader /\ [][NextHeader]_vars

\* =================================================================== Build
\* Specification SpecBuild applies Build to one rule, one request and one
\* response, in the revision of unnamed/part_003 (the bodies are byte
\* slices) and in the one of unnamed/part_001 (the bodies are taken from
\* their ReadCloserWithBuffer, here already sealed).

\* FullResponseBody as NewEvent leaves it: struct{}{}.
EmptyStruct == [k |-> "struct", v |-> 0]

\* NewEvent, event.go lines 104-117.
NewEvent ==
    [Class |-> "", Description |-> "",
     Details |-> [RequestHeader |-> EmptyMap, RequestBody |-> EmptyMap,
                  ResponseHeader |-> EmptyMap, ResponseBody |-> EmptyMap,
                  FullResponseBody |-> EmptyStruct, Meta |-> EmptyMap]]

\* url.URL.String(): the host followed by the path.
URLString(u) == u.Host \o u.Path

\* strconv.Itoa: the decimal digits, most significant first, after a "-" for
\* a negative number.
Digits == <<"0", "1", "2", "3", "4", "5", "6", "7", "8", "9">>
RECURSIVE Utoa(_)
Utoa(n) == IF n < 10 THEN <<Digits[n + 1]>> ELSE Append(Utoa(n \div 10), Digits[(n % 10) + 1])
Itoa(n) == IF n < 0 THEN <<"-">> \o Utoa(0 - n) ELSE Utoa(n)

\* The request's meta with user_id whether there is a session or not.
SetRequestMetaAlwaysUser(meta, r) ==
    MapSet(MapSet(MapSet(MapSet(meta, "method", r.Method), "url", URLString(r.URL)),
                  "user_ip", r.RemoteAddr),
           "user_id", IF r.Session # None THEN r.Session[1].Subject ELSE "")

\* SetRequestMeta, event.go lines 120-128 (part_003 lines 79-85): r.Session
\* is the *authn.AuthenticationSession found under proxy.ContextKeySession
\* in the request's context, None when there is none.
SetRequestMeta(meta, r) ==
    LET m == MapSet(MapSet(MapSet(meta, "method", r.Method), "url", URLString(r.URL)),
                    "user_ip", r.RemoteAddr)
    IN  IF r.Session # None THEN MapSet(m, "user_id", r.Session[1].Subject) ELSE m

\* SetResponseMeta, event.go lines 131-133 (part_003 line 92).
SetResponseMeta(meta, r) == MapSet(meta, "status_code", Itoa(r.StatusCode))

\* The bytes of a body as filterBody and json.Unmarshal see them: a nil
\* slice is not JSON.
BytesDoc(body) == IF body = None THEN [valid |-> FALSE, value |-> JNull] ELSE body[1]

\* json.Unmarshal(body, &e.Details.FullResponseBody), its error dropped: the
\* decoded value, or the field as it was when the bytes are not JSON.
UnmarshalInto(cur, body) == IF BytesDoc(body).valid THEN BytesDoc(body).value ELSE cur

\* Build that fills FullResponseBody whatever the filter says.
BuildBytesAlwaysFull(b, rq, rs) ==
    LET d0 == NewEvent.Details
        d1 == IF rq # None
              THEN [d0 EXCEPT
                      !.Meta = SetRequestMeta(@, rq[1]),
                      !.RequestHeader =
                          filterHeaderValues(rq[1].Header, b.Filter.RequestHeaderWhiteList, EmptyMap),
                      !.RequestBody =
                          filterBodyGjson(BytesDoc(rq[1].Body), b.Filter.RequestBodyWhiteList)]
              ELSE d0
        d2 == IF rs # None
              THEN [d1 EXCEPT
                      !.Meta = SetResponseMeta(@, rs[1]),
                      !.ResponseHeader =
                          filterHeaderValues(rs[1].Header, b.Filter.ResponseHeaderWhiteList, EmptyMap),
                      !.ResponseBody =
                          filterBodyGjson(BytesDoc(rs[1].Body), b.Filter.ResponseBodyWhiteList),
                      !.FullResponseBody = UnmarshalInto(@, rs[1].Body)]
              ELSE d1
    IN  [fault |-> FALSE, err |-> "nil",
         event |-> [Class |-> b.Class, Description |-> "", Details |-> d2]]

\* EventBuilder.Build of part_003, lines 75-107.
BuildBytes(b, rq, rs) ==
    LET d0 == NewEvent.Details
        d1 == IF rq # None
              THEN [d0 EXCEPT
                      !.Meta = SetRequestMeta(@, rq[1]),
                      !.RequestHeader =
                          filterHeaderValues(rq[1].Header, b.Filter.RequestHeaderWhiteList, EmptyMap),
                      !.RequestBody =
                          filterBodyGjson(BytesDoc(rq[1].Body), b.Filter.RequestBodyWhiteList)]
              ELSE d0
        d2 == IF rs # None
              THEN [d1 EXCEPT
                      !.Meta = SetResponseMeta(@, rs[1]),
                      !.ResponseHeader =
                          filterHeaderValues(rs[1].Header, b.Filter.ResponseHeaderWhiteList, EmptyMap),
                      !.ResponseBody =
                          filterBodyGjson(BytesDoc(rs[1].Body), b.Filter.ResponseBodyWhiteList),
                      !.FullResponseBody =
                          IF b.Filter.TakeWholeResponseBody
                          THEN UnmarshalInto(@, rs[1].Body) ELSE @]
              ELSE d1
    IN  [fault |-> FALSE, err |-> "nil",
         event |-> [Class |-> b.Class, Description |-> "", Details |-> d2]]

\* EventBuilder.Build of part_001, lines 72-100: the same statements on
\* bodies that are io.ReadCloser; req.Body.(*ReadCloserWithBuffer) at line
\* 79 and resp.Body.(*ReadCloserWithBuffer) at line 87 panic on a Body that
\* is nil.
BuildStream(b, rq, rs) ==
    IF \/ rq # None /\ rq[1].Body = None
       \/ rs # None /\ rs[1].Body = None
    THEN [fault |-> TRUE, err |-> "nil", event |-> NewEvent]
    ELSE BuildBytes(b, rq, rs)

\* The rules, requests and responses Build is applied to.
BuildWhiteLists(key) == {<<>>, <<key>>}
BuildRules ==
    [Class : {"", "c"}, DescriptionTemplate : {"", "d"},
     Filter : [RequestHeaderWhiteList : BuildWhiteLists(<<"x">>),
               RequestBodyWhiteList : BuildWhiteLists(<<"a">>),
               ResponseHeaderWhiteList : BuildWhiteLists(<<"x">>),
               ResponseBodyWhiteList : BuildWhiteLists(<<"a">>),
               TakeWholeResponseBody : BOOLEAN]]
BuildHeaders == {h \in HeaderSets : DOMAIN h \subseteq {<<"X">>} /\ \A n \in DOMAIN h : h[n] = <<1, 2>>}
BuildBodies ==
    {None} \cup {Some(d) : d \in {[valid |-> FALSE, value |-> JNull],
                                  [valid |-> TRUE, value |-> JNull],
                                  [valid |-> TRUE, value |-> JArr(<<JNum(7)>>)],
                                  [valid |-> TRUE, value |-> JObj([n \in {<<"a">>} |-> JNum(7)])]}}
BuildRequests ==
    {None} \cup
    {Some([Method |-> "GET", URL |-> [Host |-> <<1>>, Path |-> <<2>>], RemoteAddr |-> "ip",
           Session |-> s, Header |-> h, Body |-> bd]) :
        s \in {None, Some([Subject |-> "u"])}, h \in BuildHeaders, bd \in BuildBodies}
BuildStatusCodes == {0, 200, 0 - 5}
BuildResponses ==
    {None} \cup
    {Some([StatusCode |-> c, Header |-> h, Body |-> bd]) :
        c \in BuildStatusCodes, h \in BuildHeaders, bd \in BuildBodies}
BuildInputs == [b : BuildRules, req : BuildRequests, resp : BuildResponses]

ApplyBuildBytes ==
    /\ fnOut = None
    /\ fnIn \in BuildInputs
    /\ fnOut' = Some(BuildBytes(fnIn.b, fnIn.req, fnIn.resp))
    /\ UNCHANGED fnIn
    /\ fnRest

ApplyBuildStream ==
    /\ fnOut = None
    /\ fnIn \in BuildInputs
    /\ fnOut' = Some(BuildStream(fnIn.b, fnIn.req, fnIn.resp))
    /\ UNCHANGED fnIn
    /\ fnRest

InitBuild ==
    /\ StreamInit
    /\ rcData = <<>>
    /\ builders = <<>>
    /\ senders = <<>>
    /\ RTIdle
    /\ rtRequestCopy = None /\ rtResponseCopy = None
    /\ goCount = 0
    /\ sendBlocks = {}
    /\ FirstIdle
    /\ SealIdle
    /\ LoadIdle
    /\ LateIdle
    /\ fnIn \in BuildInputs
    /\ fnOut = None

NextBuild ==
    \/ ApplyBuildBytes
    \/ ApplyBuildStream

SpecBuild == InitBuild /\ [][NextBuild]_vars

\* ================================================ NewReadCloserWithBuffer
\* Specification SpecNew applies the constructor of ReadCloserWithBuffer, in
\* its two revisions, to an io.ReadCloser: the nil interface (None), an
\* interface holding a stream, or an interface holding a nil pointer, which
\* is not the nil interface.
NilPointer == [data |-> <<>>, eofWithData |-> FALSE, fails |-> "nil pointer"]

\* A constructor without the check of lines 29-31.
NewReadCloserWithBufferUnchecked(closer) ==
    [rc  |-> Some([rc |-> closer, buffer |-> <<>>, mBuffer |-> FALSE,
                   bufferReady |-> FALSE, waiting |-> <<>>, m |-> FALSE]),
     err |-> "nil"]

\* NewReadCloserWithBuffer(closer) of read_closer_with_buffer.go: the two
\* mutexes unlocked, the flag false, nobody waiting.
NewReadCloserWithBufferMutex(closer) ==
    IF closer = None
    THEN [rc |-> None, err |-> "errorNilReaderGiven"]
    ELSE [rc  |-> Some([rc |-> closer, buffer |-> <<>>, mBuffer |-> FALSE,
                        bufferReady |-> FALSE, waiting |-> <<>>, m |-> FALSE]),
          err |-> "nil"]

\* NewReadCloserWithBuffer(closer) of the revision with the sync.RWMutex:
\* the constructor takes the write lock, which Close releases.
NewReadCloserWithBufferRWMutex(closer) ==
    IF closer = None
    THEN [rc |-> None, err |-> "errorNilReaderGiven"]
    ELSE [rc  |-> Some([rc |-> closer, buffer |-> <<>>, m |-> "Lock"]),
          err |-> "nil"]

Closers ==
    {None, Some(NilPointer)}
        \cup {Some([data |-> d, eofWithData |-> e, fails |-> f]) :
                d \in SeqsUpTo({1, 2}, MaxLen), e \in BOOLEAN, f \in {"no", "read", "close"}}

NewInputs == {[closer |-> c] : c \in Closers}

ApplyNewMutex ==
    /\ fnOut = None
    /\ fnIn \in NewInputs
    /\ fnOut' = Some(NewReadCloserWithBufferMutex(fnIn.closer))
    /\ UNCHANGED fnIn
    /\ fnRest

ApplyNewRWMutex ==
    /\ fnOut = None
    /\ fnIn \in NewInputs
    /\ fnOut' = Some(NewReadCloserWithBufferRWMutex(fnIn.closer))
    /\ UNCHANGED fnIn
    /\ fnRest

InitNew ==
    /\ StreamInit
    /\ rcData = <<>>
    /\ builders = <<>>
    /\ senders = <<>>
    /\ RTIdle
    /\ rtRequestCopy = None /\ rtResponseCopy = None
    /\ goCount = 0
    /\ sendBlocks = {}
    /\ FirstIdle
    /\ SealIdle
    /\ LoadIdle
    /\ LateIdle
    /\ fnIn \in NewInputs
    /\ fnOut = None

NextNew ==
    \/ ApplyNewMutex
    \/ ApplyNewRWMutex

SpecNew == InitNew /\ [][NextNew]_vars

\* ================================================ the decorator from a file
\* Specification SpecLoad follows a decorator from its configuration file:
\* NewProxyAuditLogDecoratorFromFile loads the rules and builds the
\* decorator or refuses; a decorator that was built then serves Director
\* and one RoundTrip with its audit task.
\*
\* A pattern source is a string of characters: 1, 2, 3 stand for themselves,
\* Caret and Dollar anchor, LParen opens a group.
Caret == 94
Dollar == 36
LParen == 40

\* The nil *regexp.Regexp.
NilRegexp == [nil |-> TRUE]

RECURSIVE Balanced(_, _, _)
Balanced(src, i, open) ==
    IF i > Len(src) THEN open = 0
    ELSE IF src[i] = LParen THEN Balanced(src, i + 1, open + 1)
    ELSE Balanced(src, i + 1, open)

\* regexp.Compile(src) for such sources: a group that is never closed is a
\* syntax error; otherwise a literal with its anchors.
regexpCompile(src) ==
    IF ~Balanced(src, 1, 0)
    THEN [r |-> NilRegexp, err |-> "missing closing )"]
    ELSE LET bol == Len(src) > 0 /\ src[1] = Caret
             eol == Len(src) > 0 /\ src[Len(src)] = Dollar
             from == IF bol THEN 2 ELSE 1
             to == IF eol THEN Len(src) - 1 ELSE Len(src)
         IN  [r |-> [lit |-> SubSeq(src, from, to), bol |-> bol, eol |-> eol], err |-> "nil"]

\* One element of the array of a configuration document: an object with its
\* url_pattern and method, or a JSON value of another kind.
RawRules ==
    {[kind |-> "object", url_pattern |-> p, method |-> "GET"] :
        p \in {<<1>>, <<Caret, 1, 2, Dollar>>, <<LParen, 1>>}}
        \cup {[kind |-> "number", url_pattern |-> <<>>, method |-> ""]}

\* EventBuilder.UnmarshalJSON(raw) on a zero EventBuilder: the fields, then
\* the compiled pattern.
UnmarshalJSON(raw) ==
    IF raw.kind # "object"
    THEN [b |-> [Method |-> "", r |-> NilRegexp], err |-> "UnmarshalTypeError"]
    ELSE LET c == regexpCompile(raw.url_pattern)
         IN  [b |-> [Method |-> raw.method, r |-> c.r], err |-> c.err]

\* A configuration document: not JSON at all, or the JSON value null, a
\* number, or an array of elements; and whether the schema it is validated
\* against accepts it.
ConfigDocs ==
    {[json |-> "malformed", items |-> <<>>, conforms |-> FALSE]}
        \cup {[json |-> j, items |-> <<>>, conforms |-> c] :
                j \in {"null", "number"}, c \in BOOLEAN}
        \cup {[json |-> "array", items |-> q, conforms |-> c] :
                q \in SeqsUpTo(RawRules, MaxRules), c \in BOOLEAN}

\* The schema: its bytes are a JSON schema or they are not.
Schemas == {[wellFormed |-> w] : w \in BOOLEAN}

\* validateJSONConfigSchema(config, schema), lines 41-57.
validateJSONConfigSchema(config, schema) ==
    IF ~schema.wellFormed \/ config.json = "malformed"
    THEN "loaderErr"
    ELSE IF ~config.conforms
    THEN "schemaErr"
    ELSE "nil"

\* json.Unmarshal(config, &builders) into the nil slice builders: the slice
\* as it is left, and the error. An element whose UnmarshalJSON fails ends
\* the decoding, the elements decoded so far staying in the slice.
RECURSIVE UnmarshalArray(_, _, _)
UnmarshalArray(items, i, acc) ==
    IF i > Len(items) THEN [builders |-> Some(acc), err |-> "nil"]
    ELSE LET u == UnmarshalJSON(items[i])
         IN  IF u.err # "nil"
             THEN [builders |-> Some(Append(acc, u.b)), err |-> u.err]
             ELSE UnmarshalArray(items, i + 1, Append(acc, u.b))

jsonUnmarshal(config) ==
    IF config.json = "malformed" THEN [builders |-> None, err |-> "SyntaxError"]
    ELSE IF config.json = "null" THEN [builders |-> None, err |-> "nil"]
    ELSE IF config.json = "number" THEN [builders |-> None, err |-> "UnmarshalTypeError"]
    ELSE UnmarshalArray(config.items, 1, <<>>)

\* A deserializeJSONConfig that hands back what json.Unmarshal left in the
\* slice together with the error.
deserializeJSONConfigPartial(config) ==
    jsonUnmarshal(config)

\* deserializeJSONConfig(config), lines 59-67.
deserializeJSONConfig(config) ==
    LET u == jsonUnmarshal(config)
    IN  IF u.err # "nil"
        THEN [builders |-> None, err |-> u.err]
        ELSE [builders |-> u.builders, err |-> "nil"]

\* DeserializeEventBuildersFromBytes(config, schema), lines 33-39.
DeserializeEventBuildersFromBytes(config, schema) ==
    LET err == validateJSONConfigSchema(config, schema)
    IN  IF err # "nil"
        THEN [builders |-> None, err |-> err]
        ELSE deserializeJSONConfig(config)

\* DeserializeEventBuildersFromFiles, lines 18-30: the file may be
\* unreadable and the schema may not be found (None).
DeserializeEventBuildersFromFiles(file, schema) ==
    IF file = None THEN [builders |-> None, err |-> "readErr"]
    ELSE IF schema = None THEN [builders |-> None, err |-> "findErr"]
    ELSE DeserializeEventBuildersFromBytes(file[1], schema[1])

\* The elements of a []EventBuilder, the nil slice having none.
Elements(bs) == IF bs = None THEN <<>> ELSE bs[1]

LoadInputs ==
    {[file |-> f, schema |-> s, kafka |-> k] :
        f \in {None} \cup {Some(d) : d \in ConfigDocs},
        s \in {None} \cup {Some(x) : x \in Schemas},
        k \in BOOLEAN}

loadFrame ==
    /\ UNCHANGED <<streamVars, pathVars, firstVars, sealVars, lateVars>>
    /\ UNCHANGED <<rtPc, req, fwdCalled, fwdResp, fwdErr, retResp, retErr,
                   taskPc, taskReq, taskResp, taskErr, bi, si, sent,
                   callerPc, callerBytes, callerErr>>

\* NewProxyAuditLogDecoratorFromFile, line 28.
FromFileLoad ==
    /\ fromFilePc = "idle"
    /\ fnIn \in LoadInputs
    /\ fnOut = None
    /\ fnOut' = Some(DeserializeEventBuildersFromFiles(fnIn.file, fnIn.schema))
    /\ fromFilePc' = "loaded"
    /\ UNCHANGED <<fnIn, builders, senders, dirIn, dirCalls>>
    /\ loadFrame

\* NewProxyAuditLogDecoratorFromFile, lines 29-31: return nil, err.
FromFileRefuse ==
    /\ fromFilePc = "loaded"
    /\ fnOut[1].err # "nil"
    /\ fromFilePc' = "refused"
    /\ UNCHANGED <<fnIn, fnOut, builders, senders, dirIn, dirCalls>>
    /\ loadFrame

\* NewProxyAuditLogDecoratorFromFile, line 33: the decorator over the rules.
FromFileConstruct ==
    /\ fromFilePc = "loaded"
    /\ fnOut[1].err = "nil"
    /\ LET d == NewProxyAuditLogDecoratorFromEventBuilders(Elements(fnOut[1].builders),
                                                           fnIn.kafka)
       IN  builders' = d.builders /\ senders' = d.senders
    /\ fromFilePc' = "constructed"
    /\ UNCHANGED <<fnIn, fnOut, dirIn, dirCalls>>
    /\ loadFrame

\* The requests Director and RoundTrip are called with in SpecLoad, and the
\* answers of the proxy.
LoadRequests ==
    {[url |-> u, method |-> "GET", body |-> b] :
        u \in URLs, b \in {None, Some(BytesReader(<<1>>))}}
LoadResponses ==
    {[status |-> 200, body |-> b] : b \in {None, Some(BytesReader(<<1>>))}}

\* A Director that calls the proxy's Director twice.
DirectorTwice(r) ==
    /\ fromFilePc = "constructed"
    /\ Len(dirIn) < MaxDirector
    /\ dirIn' = Append(dirIn, r)
    /\ dirCalls' = Append(Append(dirCalls, r), r)
    /\ UNCHANGED <<fromFilePc, fnIn, fnOut, builders, senders>>
    /\ loadFrame

\* Director(r), lines 87-89: d.proxy.Director(r).
Director(r) ==
    /\ fromFilePc = "constructed"
    /\ Len(dirIn) < MaxDirector
    /\ dirIn' = Append(dirIn, r)
    /\ dirCalls' = Append(dirCalls, r)
    /\ UNCHANGED <<fromFilePc, fnIn, fnOut, builders, senders>>
    /\ loadFrame

DirectorCall ==
    \E r \in {None, Some([url |-> <<1, 2>>, method |-> "GET", body |-> None])} : Director(r)

\* RoundTrip on the decorator that was built.
LoadRoundTrip ==
    /\ fromFilePc = "constructed"
    /\ \E r \in {None} \cup {Some(x) : x \in LoadRequests},
          fresp \in {None} \cup {Some(x) : x \in LoadResponses},
          ferr \in {"nil", "proxyErr"} :
           RoundTripCall(r, fresp, ferr)

InitLoad ==
    /\ StreamInit
    /\ rcData = <<>>
    /\ builders = <<>>
    /\ senders = <<>>
    /\ RTIdle
    /\ rtRequestCopy = None /\ rtResponseCopy = None
    /\ goCount = 0
    /\ sendBlocks = {}
    /\ FirstIdle
    /\ SealIdle
    /\ LoadIdle
    /\ LateIdle
    /\ fnIn \in LoadInputs
    /\ fnOut = None

NextLoad ==
    \/ FromFileLoad
    \/ FromFileRefuse
    \/ FromFileConstruct
    \/ DirectorCall
    \/ LoadRoundTrip
    \/ SaveEventSkip
    \/ SaveEventSend
    \/ SaveEventReturn
    \/ CallerDrain

SpecLoad == InitLoad /\ [][NextLoad]_vars

\* ====================================================== the OPA authorizer
\* Specification SpecOpa applies Validate and Authorize of AuthorizerOPA to
\* one configuration, one request and one answer of the OPA endpoint.
\*
\* A configuration document holds an endpoint and a payload, each of which
\* may be missing. The payload is a jsonnet snippet: the empty string, a
\* constant, the external variable input, or text that is no jsonnet.
OpaEndpoints == {"invalid-url", "http://host/path"}
OpaPayloads == {"", "{}", "std.extVar('input')", "{"}
OpaConfigs ==
    {[endpoint |-> e, payload |-> p] :
        e \in {None} \cup {Some(x) : x \in OpaEndpoints},
        p \in {None} \cup {Some(x) : x \in OpaPayloads}}

\* configuration.Provider.AuthorizerConfig(id, config, &c): the rule's
\* configuration over the authorizer's own, key by key, checked against the
\* authorizer's schema (endpoint and payload required, endpoint a URI) and
\* decoded into c.
AuthorizerConfig(config, global) ==
    LET endpoint == IF config.endpoint # None THEN config.endpoint ELSE global.endpoint
        payload == IF config.payload # None THEN config.payload ELSE global.payload
    IN  IF endpoint = None \/ payload = None THEN [c |-> None, err |-> "required"]
        ELSE IF endpoint[1] # "http://host/path" THEN [c |-> None, err |-> "format"]
        ELSE [c |-> Some([Endpoint |-> endpoint[1], Payload |-> payload[1]]), err |-> "nil"]

\* Config(config), lines 178-185.
Config(config, global) ==
    LET m == AuthorizerConfig(config, global)
    IN  IF m.err # "nil"
        THEN [c |-> None, err |-> "ErrAuthorizerMisconfigured"]
        ELSE [c |-> m.c, err |-> "nil"]

\* A Validate that does not ask whether the authorizer is enabled.
ValidateAnyway(enabled, config, global) ==
    Config(config, global).err

\* Validate(config), lines 167-174.
Validate(enabled, config, global) ==
    IF ~enabled THEN "ErrAuthorizerNotEnabled"
    ELSE Config(config, global).err

\* The bytes of a body: 49 is the digit 1, 123 and 125 are the braces.
\* json.Unmarshal(body, &data) knows the number 1 and the empty object.
ParseJSON(body) ==
    IF body = <<49>> THEN [data |-> Some(JNum(1)), err |-> "nil"]
    ELSE IF body = <<123, 125>> THEN [data |-> Some(JObj(EmptyMap)), err |-> "nil"]
    ELSE [data |-> None, err |-> "SyntaxError"]

\* getParsedBody(req), lines 187-211: the parsed body, the error, and how
\* many bytes of req.Body have been read when it returns.
getParsedBody(r) ==
    IF r.Body = None THEN [data |-> None, err |-> "nil", read |-> 0]
    ELSE IF r.ContentLength >= 0 /\ r.ContentType = "application/json"
    THEN LET b == ReadAll(r.Body[1], 0, <<>>)
         IN  IF b.err # "nil"
             THEN [data |-> None, err |-> b.err, read |-> Len(b.bytes)]
             ELSE [data |-> ParseJSON(b.bytes).data, err |-> ParseJSON(b.bytes).err,
                   read |-> Len(b.bytes)]
    ELSE [data |-> None, err |-> "nil", read |-> 0]

\* vm.EvaluateSnippet(templateID, payload) with the external variable input
\* set to ext.
EvaluateSnippet(payload, ext) ==
    IF payload = "{}" THEN [str |-> [k |-> "const", v |-> payload], err |-> "nil"]
    ELSE IF payload = "std.extVar('input')" THEN [str |-> [k |-> "input", v |-> ext], err |-> "nil"]
    ELSE [str |-> [k |-> "none", v |-> 0], err |-> "RuntimeError"]

\* What the OPA endpoint's body decodes to: no JSON at all, the value null,
\* or an object whose result may be missing and whose allow may be a
\* boolean, a string or missing.
OpaBodies ==
    {[json |-> "garbage", result |-> None], [json |-> "null", result |-> None],
     [json |-> "object", result |-> None]}
        \cup {[json |-> "object", result |-> Some([allow |-> a, deny |-> d])] :
                a \in {[k |-> "missing", v |-> 0], [k |-> "bool", v |-> TRUE],
                       [k |-> "bool", v |-> FALSE], [k |-> "str", v |-> "yes"]},
                d \in {"", "no"}}

\* json.NewDecoder(res.Body).Decode(&respPayload) into the zero payload.
Decode(body) ==
    LET zero == [Allow |-> FALSE, Deny |-> ""]
    IN  IF body.json = "garbage" THEN [p |-> zero, err |-> "SyntaxError"]
        ELSE IF body.json = "null" \/ body.result = None THEN [p |-> zero, err |-> "nil"]
        ELSE IF body.result[1].allow.k = "str" THEN [p |-> zero, err |-> "UnmarshalTypeError"]
        ELSE [p |-> [Allow |-> IF body.result[1].allow.k = "bool"
                               THEN body.result[1].allow.v ELSE FALSE,
                     Deny |-> body.result[1].deny],
              err |-> "nil"]

\* A Forbidden that looks at the deny reason only.
ForbiddenDenyOnly(p) == p.Deny # ""

\* opaResponsePayload.Forbidden, lines 51-53.
Forbidden(p) == p.Deny # "" \/ ~p.Allow

\* The answers of a.client.Do(req): an error, or a response.
OpaAnswers ==
    {[err |-> "transportErr", status |-> 0, body |-> [json |-> "garbage", result |-> None]]}
        \cup {[err |-> "nil", status |-> s, body |-> b] : s \in {200, 500}, b \in OpaBodies}

\* Authorize(r, session, config, _), lines 82-164, the endpoint answering
\* with answer: the error, the payload posted (None when nothing was), and
\* how many bytes of r.Body have been read.
Authorize(r, session, config, global, answer) ==
    LET cfg == Config(config, global)
        body == getParsedBody(r)
        upstreamReq == [method |-> r.Method, path |-> r.URL, body |-> body.data,
                        is_body_truncated |-> FALSE]
        jsonInput == [session |-> session.Subject, upstream_request |-> upstreamReq]
        str == EvaluateSnippet(cfg.c[1].Payload, jsonInput)
        posted == IF cfg.c[1].Payload # "" THEN str.str ELSE [k |-> "input", v |-> jsonInput]
        out(e, p, n) == [err |-> e, posted |-> p, read |-> n]
    IN  IF cfg.err # "nil" THEN out(cfg.err, None, 0)
        ELSE IF body.err # "nil" THEN out(body.err, None, body.read)
        ELSE IF ~session.Marshals THEN out("UnsupportedTypeError", None, body.read)
        ELSE IF cfg.c[1].Payload # "" /\ str.err # "nil" THEN out(str.err, None, body.read)
        ELSE IF answer.err # "nil" THEN out(answer.err, Some(posted), body.read)
        ELSE IF answer.status # 200 THEN out("expected status code 200", Some(posted), body.read)
        ELSE IF Decode(answer.body).err # "nil"
        THEN out(Decode(answer.body).err, Some(posted), body.read)
        ELSE IF Forbidden(Decode(answer.body).p) THEN out("ErrForbidden", Some(posted), body.read)
        ELSE out("nil", Some(posted), body.read)

OpaRequests ==
    {[Method |-> "POST", URL |-> <<1>>, ContentLength |-> n, ContentType |-> t, Body |-> b] :
        n \in {0 - 1, 2}, t \in {"application/json", "text/plain"},
        b \in {None, Some(BytesReader(<<49>>)), Some(BytesReader(<<123, 125>>)),
               Some(BytesReader(<<123>>)),
               Some([data |-> <<49>>, eofWithData |-> TRUE, fails |-> "read"])}}

OpaSessions == {[Subject |-> "u", Marshals |-> m] : m \in BOOLEAN}

OpaInputs ==
    [enabled : BOOLEAN,
     config : OpaConfigs,
     global : {[endpoint |-> None, payload |-> None],
               [endpoint |-> Some("http://host/path"), payload |-> Some("{}")]},
     r : OpaRequests,
     session : OpaSessions,
     answer : OpaAnswers]

ApplyValidate ==
    /\ fnOut = None
    /\ fnIn \in OpaInputs
    /\ fnOut' = Some([op |-> "Validate",
                      err |-> Validate(fnIn.enabled, fnIn.config, fnIn.global),
                      posted |-> None, read |-> 0])
    /\ UNCHANGED fnIn
    /\ fnRest

ApplyAuthorize ==
    /\ fnOut = None
    /\ fnIn \in OpaInputs
    /\ fnOut' = Some([op |-> "Authorize"] @@
                     Authorize(fnIn.r, fnIn.session, fnIn.config, fnIn.global, fnIn.answer))
    /\ UNCHANGED fnIn
    /\ fnRest

InitOpa ==
    /\ StreamInit
    /\ rcData = <<>>
    /\ builders = <<>>
    /\ senders = <<>>
    /\ RTIdle
    /\ rtRequestCopy = None /\ rtResponseCopy = None
    /\ goCount = 0
    /\ sendBlocks = {}
    /\ FirstIdle
    /\ SealIdle
    /\ LoadIdle
    /\ LateIdle
    /\ fnIn \in OpaInputs
    /\ fnOut = None

NextOpa ==
    \/ ApplyValidate
    \/ ApplyAuthorize

SpecOpa == InitOpa /\ [][NextOpa]_vars

\* ---------------------------------------------- concurrent Authorize calls
\* Everything but the late groups at rest, over an empty stream.
BaseIdle ==
    /\ StreamInit
    /\ rcData = <<>>
    /\ builders = <<>>
    /\ senders = <<>>
    /\ RTIdle
    /\ rtRequestCopy = None /\ rtResponseCopy = None
    /\ goCount = 0
    /\ sendBlocks = {}
    /\ fnIn = None /\ fnOut = None
    /\ FirstIdle
    /\ SealIdle
    /\ LoadIdle

opaFrame ==
    UNCHANGED <<streamVars, rtVars, pathVars, fnVars, firstVars, sealVars, loadVars,
                rwVars, snapVars>>

\* The input caller g marshals, lines 90-107: each caller has its own
\* session, with no body to parse.
jsonInput(g) ==
    [session |-> g,
     upstream_request |-> [method |-> "POST", path |-> <<1>>, body |-> JObj(EmptyMap),
                           is_body_truncated |-> FALSE]]

\* Lines 83-113: the configuration read, the input marshalled.
OpaMarshal(g) ==
    /\ opaPc[g] = "idle"
    /\ opaPc' = [opaPc EXCEPT ![g] = "marshalled"]
    /\ UNCHANGED <<opaPayload, opaVm, opaStr, opaPosted>>
    /\ opaFrame

\* Line 115 with an empty c.Payload: the marshalled input is what is posted.
OpaPlain(g) ==
    /\ opaPc[g] = "marshalled"
    /\ opaPayload = ""
    /\ opaStr' = [opaStr EXCEPT ![g] = Some([k |-> "input", v |-> jsonInput(g)])]
    /\ opaPc' = [opaPc EXCEPT ![g] = "evaluated"]
    /\ UNCHANGED <<opaPayload, opaVm, opaPosted>>
    /\ opaFrame

\* Line 116: a.vm.ExtCode("input", string(jsonInput)) on the one VM of the
\* authorizer (lines 58-74), under no lock.
ExtCode(g) ==
    /\ opaPc[g] = "marshalled"
    /\ opaPayload # ""
    /\ opaVm' = Some(jsonInput(g))
    /\ opaPc' = [opaPc EXCEPT ![g] = "extset"]
    /\ UNCHANGED <<opaPayload, opaStr, opaPosted>>
    /\ opaFrame

\* Lines 117-123: a.vm.EvaluateSnippet(templateID, c.Payload) with what the
\* VM holds as input now.
OpaEvaluate(g) ==
    /\ opaPc[g] = "extset"
    /\ LET e == EvaluateSnippet(opaPayload, opaVm[1])
       IN  IF e.err # "nil"
           THEN /\ opaPc' = [opaPc EXCEPT ![g] = "failed"]
                /\ UNCHANGED opaStr
           ELSE /\ opaPc' = [opaPc EXCEPT ![g] = "evaluated"]
                /\ opaStr' = [opaStr EXCEPT ![g] = Some(e.str)]
    /\ UNCHANGED <<opaPayload, opaVm, opaPosted>>
    /\ opaFrame

\* Lines 126-135: the request built from jsonInputReader and sent.
OpaDo(g) ==
    /\ opaPc[g] = "evaluated"
    /\ opaPosted' = [opaPosted EXCEPT ![g] = opaStr[g]]
    /\ opaPc' = [opaPc EXCEPT ![g] = "done"]
    /\ UNCHANGED <<opaPayload, opaVm, opaStr>>
    /\ opaFrame

\* Authorize returns (lines 120, 137-163); the caller may call it again.
OpaReturn(g) ==
    /\ opaPc[g] \in {"done", "failed"}
    /\ opaPc' = [opaPc EXCEPT ![g] = "idle"]
    /\ opaStr' = [opaStr EXCEPT ![g] = None]
    /\ UNCHANGED <<opaPayload, opaVm, opaPosted>>
    /\ opaFrame

InitOpaRace ==
    /\ BaseIdle
    /\ RwIdle
    /\ SnapIdle
    /\ opaPayload \in OpaPayloads
    /\ opaVm = None
    /\ opaPc = [g \in Getters |-> "idle"]
    /\ opaStr = [g \in Getters |-> None]
    /\ opaPosted = [g \in Getters |-> None]

NextOpaRace ==
    \/ \E g \in Getters : OpaMarshal(g)
    \/ \E g \in Getters : OpaPlain(g)
    \/ \E g \in Getters : ExtCode(g)
    \/ \E g \in Getters : OpaEvaluate(g)
    \/ \E g \in Getters : OpaDo(g)
    \/ \E g \in Getters : OpaReturn(g)

SpecOpaRace == InitOpaRace /\ [][NextOpaRace]_vars

\* ------------------------------------------- the caller and the audit task
snapFrame ==
    UNCHANGED <<streamVars, rtVars, pathVars, fnVars, firstVars, sealVars, loadVars,
                rwVars, opaVars>>

\* Headers as the set of the names present; Connection is a hop-by-hop
\* header a reverse proxy deletes from the response it got from RoundTrip.
SnapHeaders == {{"X"}, {"X", "Connection"}}
SnapStatusCodes == {200, 502}
SnapBytes == <<123, 125>>

\* r.Clone(r.Context()): a request of its own, its header copied deeply.
Clone(r) == [Header |-> r.Header]

\* RoundTrip, lines 54-84. NewRequestWithBytesBody keeps a clone of the
\* request and the bytes; NewResponseWithBytesBody keeps the bytes and the
\* very *http.Response that line 83 returns to the caller, so the task
\* has no response header or status code of its own: it reads snapResp.
SnapRoundTrip ==
    /\ snapPc = "idle"
    /\ \E h \in SnapHeaders, rh \in SnapHeaders, st \in SnapStatusCodes :
        LET r == [Header |-> h]
            resp == [Header |-> rh, StatusCode |-> st]
        IN  /\ snapReq' = r
            /\ snapCopy' = Clone(r) @@ [Body |-> SnapBytes, RespBody |-> SnapBytes]
            /\ snapResp' = resp
            /\ snapCaptured' = [RequestHeader |-> h, ResponseHeader |-> rh,
                                StatusCode |-> st]
    /\ snapPc' = "returned"
    /\ UNCHANGED snapEvent
    /\ snapFrame

\* The caller goes on with the request it passed in.
CallerSetsRequestHeader ==
    /\ snapPc = "returned"
    /\ \E h \in SnapHeaders : snapReq' = [snapReq EXCEPT !.Header = h]
    /\ UNCHANGED <<snapPc, snapCopy, snapResp, snapCaptured, snapEvent>>
    /\ snapFrame

\* The caller goes on with the response it was returned.
CallerSetsResponse ==
    /\ snapPc = "returned"
    /\ \E h \in SnapHeaders, st \in SnapStatusCodes :
        snapResp' = [Header |-> h, StatusCode |-> st]
    /\ UNCHANGED <<snapPc, snapReq, snapCopy, snapCaptured, snapEvent>>
    /\ snapFrame

\* saveEvent's b.Build(req, resp): the request side from the task's clone
\* and bytes, resp.StatusCode and resp.Header through the embedded
\* *http.Response.
SnapBuild ==
    /\ snapPc = "returned"
    /\ snapEvent = None
    /\ snapEvent' = Some([RequestHeader |-> snapCopy.Header,
                          RequestBody |-> snapCopy.Body,
                          status_code |-> snapResp.StatusCode,
                          ResponseHeader |-> snapResp.Header,
                          ResponseBody |-> snapCopy.RespBody])
    /\ UNCHANGED <<snapPc, snapReq, snapCopy, snapResp, snapCaptured>>
    /\ snapFrame

InitSnap ==
    /\ BaseIdle
    /\ RwIdle
    /\ OpaIdle
    /\ SnapIdle

NextSnap ==
    \/ SnapRoundTrip
    \/ CallerSetsRequestHeader
    \/ CallerSetsResponse
    \/ SnapBuild

SpecSnap == InitSnap /\ [][NextSnap]_vars

\* ------------------------------------- the two revisions of the stream
\* The revision with the channels (read_closer_with_buffer.go) and the one
\* with the sync.RWMutex run on the same inner stream: every Read, Close
\* and GetBufBlocking the callers make on the first is made on the second
\* too, each side scheduled on its own.
rwFrame ==
    UNCHANGED <<streamVars, rtVars, pathVars, fnVars, firstVars, sealVars, loadVars,
                snapVars, opaVars>>

\* A Read that appends whatever err is.
RwReadAppendAlways ==
    /\ readPc # "idle"
    /\ rwPos < rcPos
    /\ rwBuffer' = rwBuffer \o readN
    /\ rwPos' = rcPos
    /\ UNCHANGED <<rwLock, rwClosePc, rwGetPc, rwResult, closeAgain>>
    /\ rwFrame

\* Read of the RWMutex revision, lines 38-46, given the n, err the inner
\* stream gave the Read in progress: appended if err == nil.
RwRead ==
    /\ readPc # "idle"
    /\ rwPos < rcPos
    /\ rwBuffer' = (IF readErr = "nil" THEN rwBuffer \o readN ELSE rwBuffer)
    /\ rwPos' = rcPos
    /\ UNCHANGED <<rwLock, rwClosePc, rwGetPc, rwResult, closeAgain>>
    /\ rwFrame

\* The Reads come before the one Close, and each is made on both streams.
TwinReadCall == closePc = "idle" /\ ReadCall
TwinReadReturn == rwPos = rcPos /\ ReadReturn
TwinCloseCall == readPc = "idle" /\ CloseCall

\* Close of the RWMutex revision, lines 49-55: r.rc.Close(); r.m.Unlock(),
\* which is fatal on a mutex that is not locked.
RwClose ==
    /\ closePc # "idle"
    /\ rwClosePc = "idle"
    /\ IF rwLock = "Lock"
       THEN rwLock' = "free" /\ rwClosePc' = "done"
       ELSE rwLock' = rwLock /\ rwClosePc' = "fault"
    /\ UNCHANGED <<rwBuffer, rwPos, rwGetPc, rwResult, closeAgain>>
    /\ rwFrame

\* GetBufBlocking of the RWMutex revision, line 59: r.m.RLock() is asked
\* for, by a caller that has made the call on the other stream.
RwGetBufCall(g) ==
    /\ getPc[g] # "idle"
    /\ rwGetPc[g] = "idle"
    /\ rwGetPc' = [rwGetPc EXCEPT ![g] = "rlock"]
    /\ UNCHANGED <<rwBuffer, rwPos, rwLock, rwClosePc, rwResult, closeAgain>>
    /\ rwFrame

\* A GetBufBlocking that does not wait for the lock.
RwGetBufReturnNoLock(g) ==
    /\ rwGetPc[g] = "rlock"
    /\ rwResult' = [rwResult EXCEPT ![g] = rwBuffer]
    /\ rwGetPc' = [rwGetPc EXCEPT ![g] = "done"]
    /\ UNCHANGED <<rwBuffer, rwPos, rwLock, rwClosePc, closeAgain>>
    /\ rwFrame

\* Lines 59-62: the read lock is granted once the write lock is released;
\* return *r.buffer and the deferred RUnlock.
RwGetBufReturn(g) ==
    /\ rwGetPc[g] = "rlock"
    /\ rwLock = "free"
    /\ rwResult' = [rwResult EXCEPT ![g] = rwBuffer]
    /\ rwGetPc' = [rwGetPc EXCEPT ![g] = "done"]
    /\ UNCHANGED <<rwBuffer, rwPos, rwLock, rwClosePc, closeAgain>>
    /\ rwFrame

InitTwin ==
    /\ Init
    /\ Len(rcData) <= FairMaxLen

NextTwin ==
    \/ TwinReadCall
    \/ ReadAppend
    \/ TwinReadReturn
    \/ RwRead
    \/ TwinCloseCall
    \/ CloseSeal
    \/ CloseRange
    \/ \E g \in Getters : CloseSend(g)
    \/ CloseReturn
    \/ RwClose
    \/ \E g \in Getters : GetBufCheck(g)
    \/ \E g \in Getters : GetBufReturn(g)
    \/ \E g \in Getters : RwGetBufCall(g)
    \/ \E g \in Getters : RwGetBufReturn(g)

SpecTwin == InitTwin /\ [][NextTwin]_vars

\* ------------------------------------------------------ Close called again
\* Close on the stream with the channels once it has returned: lines 63-67
\* again, then the range over *r.waiting of line 69, which still holds every
\* channel ever registered.
CloseAgain ==
    /\ closePc = "done"
    /\ ~closeAgain
    /\ closeAgain' = TRUE
    /\ closePc' = "seal"
    /\ UNCHANGED <<rcData, rcPos, rcFailed, rcClosed, buffer, mBuffer, bufferReady,
                   waiting, readerVars, notify, notifyIdx, drainedAtClose, getterVars>>
    /\ UNCHANGED <<rwBuffer, rwPos, rwLock, rwClosePc, rwGetPc, rwResult>>
    /\ UNCHANGED <<rtVars, pathVars, fnVars, firstVars, sealVars, loadVars,
                   snapVars, opaVars>>

\* Close on the stream with the RWMutex once it has returned, lines 49-55:
\* r.m.Unlock() on a mutex that is not locked.
RwCloseAgain ==
    /\ rwClosePc = "done"
    /\ rwClosePc' = (IF rwLock = "Lock" THEN "done" ELSE "fault")
    /\ UNCHANGED <<rwBuffer, rwPos, rwLock, rwGetPc, rwResult, closeAgain>>
    /\ rwFrame

NextReclose ==
    \/ NextTwin
    \/ CloseAgain
    \/ RwCloseAgain

SpecReclose == InitTwin /\ [][NextReclose]_vars

\* ------------------------------------------------------------------ claims
Done(g) == getPc[g] = "done"
CloseInvoked == closePc # "idle"

\* C1: once the stream holding B has been drained through Read (io.EOF
\* returned, no other error) and Close has then been called, every
\* GetBufBlocking call that returns, returns exactly B.
C1_AllObserversGetB ==
    \A g \in Getters : (drainedAtClose /\ Done(g)) => result[g] = rcData

\* C2: no GetBufBlocking call is released or returns before Close has been
\* invoked; so while Close is never invoked every caller stays blocked.
C2_NoReturnBeforeClose ==
    \A g \in Getters : getPc[g] \in {"readbuf", "done"} => CloseInvoked

\* A getter that registered in waiting before Close, and has returned.
C2_Witness ==
    \E g \in Getters : Done(g) /\ (\E i \in 1..Len(waiting) : waiting[i] = g)

\* C3: once Close has been invoked, every GetBufBlocking call that has
\* started, before or after it, eventually returns, and Close eventually
\* returns. A call that has returned stays returned and a call that has
\* started never goes back, so this is: from every state where Close has been
\* invoked, a state comes where Close has returned and no call is under way.
C3_NoMissedWakeups ==
    [](CloseInvoked =>
          <>(closePc = "done" /\ \A g \in Getters : getPc[g] \in {"idle", "done"}))

\* Close has returned, a getter that had been blocked and a getter that came
\* after the seal have both returned.
C3_Witness ==
    /\ closePc = "done"
    /\ \E g, h \in Getters :
          /\ Done(g) /\ (\E i \in 1..Len(waiting) : waiting[i] = g)
          /\ Done(h) /\ ~(\E i \in 1..Len(waiting) : waiting[i] = h)

SameBytesAfterClose ==
    \A g, h \in Getters :
        (Done(g) /\ Done(h) /\ sealedAtCall[g] /\ sealedAtCall[h]) => result[g] = result[h]

\* C4: once Close has returned the buffer never changes, whatever is called
\* afterwards, and any two GetBufBlocking calls made after Close has
\* returned give the same bytes.
C4_SameBytesAfterClose ==
    [][/\ closePc = "done" => buffer' = buffer
       /\ SameBytesAfterClose']_vars

\* C5: whenever no Read is running, the buffer is the concatenation of all
\* bytes Read has returned to its caller.
C5_BufferIsWhatReadReturned ==
    readPc = "idle" => buffer = returned

\* C6: no getter is past the gate, free to read the buffer, while an append
\* is in progress, and no getter gets a torn buffer.
C6_NoTornBuffer ==
    /\ ~(readPc = "appending" /\ \E g \in Getters : getPc[g] = "readbuf")
    /\ \A g \in Getters : result[g] # Torn

\* The events sender s got for the builder at index b.
SendCount(s, b) ==
    Cardinality({i \in 1..Len(sent) : sent[i] = [sender |-> s, rule |-> b]})

\* C7: for a non-nil request, when the caller has read the body of the
\* response RoundTrip returned to its end and closed it, it has got exactly
\* the bytes of the body the proxy produced, and neither the reading nor the
\* closing failed.
C7_ResponseTransparency ==
    (callerPc = "drained" /\ req # None) =>
        /\ callerBytes = fwdResp[1].body[1].data
        /\ callerErr = "nil"

C7_Witness ==
    /\ callerPc = "drained"
    /\ req # None
    /\ fwdResp[1].body[1].eofWithData
    /\ Len(fwdResp[1].body[1].data) >= 2
    /\ callerBytes = fwdResp[1].body[1].data

\* C8: for a non-nil request, RoundTrip hands the request to the proxy and
\* returns what the proxy returned: the same error, and a response exactly
\* when the proxy gave one.
C8_OutcomePreserved ==
    (rtPc = "returned" /\ req # None) =>
        /\ fwdCalled
        /\ retErr = fwdErr
        /\ (retResp = None) <=> (fwdResp = None)

\* C9: RoundTrip with a nil request returns an error and no response, never
\* calls the proxy, starts no saveEvent, and no sender gets an event.
C9_NilRequest ==
    (rtPc = "returned" /\ req = None) =>
        /\ retResp = None
        /\ retErr # "nil"
        /\ ~fwdCalled
        /\ taskPc = "none"
        /\ sent = <<>>

C9_Witness ==
    /\ rtPc = "returned"
    /\ req = None
    /\ retErr = "RoundTrip with nil request"
    /\ Len(builders) > 0

\* C10: when saveEvent is over, every sender has got exactly one event for
\* each builder that matches the request and none for a builder that does
\* not; and no sender ever gets more than one event for a builder.
C10_DispatchCount ==
    /\ \A i \in 1..Len(sent) :
          /\ sent[i].rule \in 1..Len(builders)
          /\ \E j \in 1..Len(senders) : sent[i].sender = senders[j]
    /\ \A j \in 1..Len(senders), b \in 1..Len(builders) :
          /\ SendCount(senders[j], b) <= 1
          /\ (taskPc = "done" /\ req # None) =>
                SendCount(senders[j], b) =
                    IF Match(builders[b], req[1].url, req[1].method) THEN 1 ELSE 0

C10_Witness ==
    /\ taskPc = "done"
    /\ Len(senders) = 2
    /\ Len(sent) = 4
    /\ \E b \in 1..Len(builders) : ~Match(builders[b], req[1].url, req[1].method)

\* C11: RoundTrip, once called, returns to its caller whatever saveEvent
\* does, even when saveEvent never finishes.
C11_ReturnsWithoutTask ==
    [](rtPc # "idle" => <>(rtPc = "returned"))

\* RoundTrip has returned a response while saveEvent sits in a Send that
\* never returns.
C11_Witness ==
    /\ rtPc = "returned"
    /\ retResp # None
    /\ taskPc = "inSend"
    /\ senders[si] \in sendBlocks

\* C12: a sender whose Send never returns keeps no other sender from getting
\* the same Event: saveEvent is never inside such a Send while another
\* sender is still without the Event (nothing but the return of that Send
\* lets saveEvent go on to the next sender).
C12_SenderIsolation ==
    ~ /\ taskPc = "inSend"
      /\ senders[si] \in sendBlocks
      /\ \E j \in 1..Len(senders) : SendCount(senders[j], bi) = 0

\* How far a RoundTrip call has come.
PathRank(pc) ==
    CASE pc = "idle"      -> 0
      [] pc = "received"  -> 1
      [] pc = "captured"  -> 2
      [] pc = "forwarded" -> 3
      [] pc = "copied"    -> 4
      [] pc = "scheduled" -> 5
      [] pc = "returned"  -> 6

\* C14 as stated: RoundTrip has returned to its caller before saveEvent is
\* started; the proxy has returned before saveEvent is started and before
\* any sender gets an Event; saveEvent is started at most once.
C14_OrderAsStated ==
    /\ taskPc # "none" => rtPc = "returned"
    /\ taskPc # "none" => fwdCalled
    /\ sent # <<>> => (fwdCalled /\ taskPc # "none")
    /\ goCount <= 1

\* C14 as the code has it: a call never goes back; saveEvent is started by
\* the go statement, after both captures and the proxy's return and before
\* RoundTrip returns; senders get Events only from a started saveEvent;
\* saveEvent is started at most once.
C14_Order ==
    /\ [][PathRank(rtPc') >= PathRank(rtPc)]_vars
    /\ [](/\ taskPc # "none" =>
               /\ rtPc \in {"scheduled", "returned"}
               /\ fwdCalled
               /\ rtRequestCopy # None /\ rtResponseCopy # None
          /\ fwdCalled => rtRequestCopy # None
          /\ sent # <<>> => taskPc # "none"
          /\ goCount <= 1
          /\ (taskPc # "none") <=> (goCount = 1))

\* A sender has got an Event while RoundTrip has not yet returned.
C14_Witness ==
    /\ rtPc = "scheduled"
    /\ sent # <<>>

\* C15: when the proxy returns an error and no response, RoundTrip still
\* starts saveEvent, with the request's copy and no response.
C15_AuditOnForwardError ==
    (rtPc = "returned" /\ req # None /\ fwdCalled /\ fwdResp = None /\ fwdErr # "nil") =>
        /\ taskPc # "none"
        /\ taskReq # None
        /\ taskResp = None

\* The body is there and reading or closing it fails.
BodyFails(b) == b # None /\ b[1].fails # "no"

\* C16: a failure to read or close the request's body does not keep
\* RoundTrip from calling the proxy, and a failure to read or close the
\* response's body does not keep it from returning the proxy's response;
\* saveEvent gets an empty body for that side.
C16_CaptureFailureDegrades ==
    /\ (rtPc = "returned" /\ req # None /\ BodyFails(req[1].body)) =>
          fwdCalled
    /\ (rtPc = "returned" /\ fwdCalled /\ fwdResp # None /\ BodyFails(fwdResp[1].body)) =>
          /\ retResp # None
          /\ taskResp # None
          /\ taskResp[1].body = <<>>

\* C17: each body is read by one party only, never again by saveEvent; and
\* when the caller has read and closed the response's body and saveEvent is
\* over, the caller has got exactly the response's bytes and every Build has
\* got exactly the request's and the response's bytes.
C17_SingleReadSameViews ==
    /\ \A b \in Bodies : Cardinality(readBy[b]) <= 1
    /\ (auditPc = "done" /\ readerPc = "closed") =>
          /\ readerBytes = wire["resp"].data
          /\ \A i \in 1..Len(auditViews) :
                /\ auditViews[i]["req"] = wire["req"].data
                /\ auditViews[i]["resp"] = wire["resp"].data

\* A string with every letter in lower case.
LowerString(x) ==
    [i \in 1..Len(x) |-> CASE x[i] = "G" -> "g" [] x[i] = "T" -> "t" [] OTHER -> x[i]]

\* C19: Match(url, method, statusCode) is true exactly when the rule's
\* method and the given one are the same but for the case of their letters,
\* the rule's pattern matches the url, and the rule's code list is empty or
\* holds statusCode.
C19_MatchIsReference ==
    (fnOut # None /\ fnIn \in MatchInputs) =>
        (fnOut[1] <=>
            /\ LowerString(fnIn.rule.Method) = LowerString(fnIn.method)
            /\ MatchString(fnIn.rule.r, fnIn.url)
            /\ \/ fnIn.rule.ResponseCodes = <<>>
               \/ \E i \in 1..Len(fnIn.rule.ResponseCodes) :
                     fnIn.rule.ResponseCodes[i] = fnIn.statusCode)

\* A match across a difference of case, on the second code of the list, by
\* a pattern anchored at both ends.
C19_Witness ==
    /\ fnOut = Some(TRUE)
    /\ fnIn \in MatchInputs
    /\ fnIn.rule.Method # fnIn.method
    /\ fnIn.rule.ResponseCodes = <<404, 200>>
    /\ fnIn.statusCode = 200
    /\ fnIn.rule.r.bol /\ fnIn.rule.r.eol /\ fnIn.rule.r.lit # <<>>

\* The members of a value reached through objects only, each with the names
\* that lead to it.
RECURSIVE ObjPaths(_)
ObjPaths(value) ==
    IF value.k # "obj" THEN {}
    ELSE UNION {{<<<<n>>, value.v[n]>>}
                \cup {<<<<n>> \o pv[1], pv[2]>> : pv \in ObjPaths(value.v[n])} :
                n \in DOMAIN value.v}

\* Names joined by dots.
RECURSIVE JoinDots(_)
JoinDots(path) ==
    IF Len(path) = 1 THEN path[1]
    ELSE path[1] \o <<".">> \o JoinDots(Tail(path))

\* What the white list selects from the body: for each key that is the
\* dotted path of a member reached through objects only, that member.
Selected(doc, wl) ==
    LET paths == IF doc.valid THEN ObjPaths(doc.value) ELSE {}
        hit(key) == {pv \in paths : JoinDots(pv[1]) = key}
        keys == {wl[i] : i \in 1..Len(wl)}
    IN  [key \in {x \in keys : hit(x) # {}} |-> (CHOOSE pv \in hit(key) : TRUE)[2]]

\* C20: filterBody gives a map with a key exactly for each white-list path
\* that leads, through objects only, to a member of the decoded body, with
\* that member as its value; a body that is not JSON gives an empty map.
C20_ExtractsSelected ==
    (fnOut # None /\ fnIn \in FilterInputs) =>
        fnOut[1] = Selected(fnIn.doc, fnIn.wl)

\* A body's stream is sealed: Close has been called on it and has set the
\* flag.
Sealed(b) == sealReady[b]

\* The builders that match the exchange.
SealMatching == {i \in 1..Len(builders) : SealMatches(i)}

\* C13: no Event is complete or with a sender before the request's body
\* and, when there is a response, the response's body are sealed, whichever
\* is sealed first; and once they are sealed every Event of the exchange
\* gets to every sender.
C13_EventAfterBothSeals ==
    /\ []((buildPc = "built" \/ sealEvents # <<>>) =>
             (Sealed("req") /\ (sealResp # None => Sealed("resp"))))
    /\ (buildPc # "none" /\ Sealed("req") /\ (sealResp # None => Sealed("resp")))
          ~> (buildPc # "none" /\ Len(sealEvents) = Len(senders) * Cardinality(SealMatching))

\* An Event has been sent in an exchange with a response where Build had to
\* wait for each of the two bodies.
C13_Witness ==
    /\ sealEvents # <<>>
    /\ sealResp # None
    /\ sealWaiting["req"] = 1
    /\ sealWaiting["resp"] = 1

\* C18: when the client has gone away and the response's body is never
\* closed, the audit task is not left blocked: in a state where nothing can
\* happen any more the task has ended.
C18_TaskNotLeftBlocked ==
    (sealPc = "returned" /\ sealGone /\ ~ENABLED NextSeal) => buildPc = "done"

\* Two header names are the same header: they differ in the case of their
\* letters at most.
SameHeader(x, y) ==
    /\ Len(x) = Len(y)
    /\ \A i \in 1..Len(x) : HeaderLower[x[i]] = HeaderLower[y[i]]

\* What the white list selects from the header set: for each key that names
\* a header of the set, all the values of that header in their order.
SelectedHeaders(h, wl) ==
    LET keys == {wl[i] : i \in 1..Len(wl)}
        hit(key) == {n \in DOMAIN h : SameHeader(key, n)}
    IN  [key \in {x \in keys : hit(x) # {}} |->
            StringList(h[CHOOSE n \in hit(key) : TRUE])]

\* C21: filterHeader gives a map with a key exactly for each white-list name
\* of a header that is in the message, with all the values of that header in
\* their order; an absent header gives no key and a header that is not in
\* the white list is not in the map.
C21_ExtractsHeaders ==
    (fnOut # None /\ fnIn \in HeaderInputs) =>
        fnOut[1] = SelectedHeaders(fnIn.h, fnIn.wl)

\* Build has returned: it was applied and did not panic.
BuildReturned == fnOut # None /\ fnIn \in BuildInputs /\ ~fnOut[1].fault

\* The number a string of decimal digits with an optional "-" stands for.
DigitValue(c) == CHOOSE d \in 0..9 : Digits[d + 1] = c
RECURSIVE DecimalValue(_)
DecimalValue(s) ==
    IF s = <<>> THEN 0
    ELSE IF Head(s) = "-" THEN 0 - DecimalValue(Tail(s))
    ELSE 10 * DecimalValue(SubSeq(s, 1, Len(s) - 1)) + DigitValue(s[Len(s)])

\* C22: for a request and a response that are there, the Event Build returns
\* has meta.method, meta.url and meta.user_ip of the request and
\* meta.status_code the decimal string of the response's status code;
\* meta.user_id is there exactly when a session is attached to the request's
\* context, and is then the session's subject.
C22_Meta ==
    (BuildReturned /\ fnIn.req # None /\ fnIn.resp # None) =>
        LET meta == fnOut[1].event.Details.Meta
            rq == fnIn.req[1]
        IN  /\ {"method", "url", "user_ip", "status_code"} \subseteq DOMAIN meta
            /\ DOMAIN meta \subseteq {"method", "url", "user_ip", "status_code", "user_id"}
            /\ meta["method"] = rq.Method
            /\ meta["url"] = rq.URL.Host \o rq.URL.Path
            /\ meta["user_ip"] = rq.RemoteAddr
            /\ DecimalValue(meta["status_code"]) = fnIn.resp[1].StatusCode
            /\ \A i \in 1..Len(meta["status_code"]) :
                  meta["status_code"][i] = "-" => i = 1
            /\ ("user_id" \in DOMAIN meta) <=> (rq.Session # None)
            /\ rq.Session # None => meta["user_id"] = rq.Session[1].Subject

\* Build has returned the Event of a request with a session and of a
\* response with a negative status code.
C22_Witness ==
    /\ BuildReturned
    /\ fnIn.req # None /\ fnIn.resp # None
    /\ fnIn.req[1].Session # None
    /\ fnIn.resp[1].StatusCode < 0
    /\ "user_id" \in DOMAIN fnOut[1].event.Details.Meta

\* C23: full_response_body holds something only when the rule's filter has
\* TakeWholeResponseBody set, and then the decoded body of the response;
\* with the flag not set, or without a response, it is as NewEvent left it.
C23_FullBodyOnlyOnFlag ==
    BuildReturned =>
        LET full == fnOut[1].event.Details.FullResponseBody
        IN  /\ (~fnIn.b.Filter.TakeWholeResponseBody \/ fnIn.resp = None) => full = EmptyStruct
            /\ full # EmptyStruct =>
                  /\ fnIn.b.Filter.TakeWholeResponseBody
                  /\ fnIn.resp # None
                  /\ fnIn.resp[1].Body # None
                  /\ fnIn.resp[1].Body[1].valid
                  /\ full = fnIn.resp[1].Body[1].value

\* Build has returned an Event with the decoded body of the response in
\* full_response_body.
C23_Witness ==
    /\ BuildReturned
    /\ fnIn.b.Filter.TakeWholeResponseBody
    /\ fnOut[1].event.Details.FullResponseBody = JObj([n \in {<<"a">>} |-> JNum(7)])

\* C24: the Event Build returns has the rule's class as its class and the
\* rule's description as its description.
C24_ClassAndDescription ==
    BuildReturned =>
        /\ fnOut[1].event.Class = fnIn.b.Class
        /\ fnOut[1].event.Description = fnIn.b.DescriptionTemplate

\* C25: Build does not panic and returns an Event and no error, whatever the
\* rule, with or without a request, with or without a response, whatever
\* their bodies; without a request and a response the Event is NewEvent's.
C25_BuildNeverFails ==
    (fnOut # None /\ fnIn \in BuildInputs) =>
        /\ ~fnOut[1].fault
        /\ fnOut[1].err = "nil"
        /\ (fnIn.req = None /\ fnIn.resp = None) => fnOut[1].event = NewEvent

Unsealed(s) ==
    IF "bufferReady" \in DOMAIN s THEN ~s.bufferReady ELSE s.m = "Lock"

\* C29: NewReadCloserWithBuffer returns an error and no stream exactly when
\* the inner stream it is given is nil; for any other inner stream it
\* returns, with no error, an unsealed stream over it with an empty buffer.
C29_FailsIffNil ==
    (fnOut # None /\ fnIn \in NewInputs) =>
        /\ fnOut[1].err # "nil" <=> fnIn.closer = None
        /\ fnOut[1].rc = None <=> fnIn.closer = None
        /\ fnIn.closer # None =>
              /\ fnOut[1].rc[1].rc = fnIn.closer
              /\ fnOut[1].rc[1].buffer = <<>>
              /\ Unsealed(fnOut[1].rc[1])

C29_Witness ==
    /\ fnOut # None /\ fnIn \in NewInputs
    /\ fnIn.closer # None
    /\ fnIn.closer # Some(NilPointer)
    /\ fnIn.closer[1].data # <<>>
    /\ fnOut[1].err = "nil"
    /\ fnOut[1].rc # None
    /\ "bufferReady" \notin DOMAIN fnOut[1].rc[1]

\* What makes the configuration of a call invalid: the document is not
\* JSON, the schema rejects it, or one of its rules has a pattern with a
\* group that is never closed.
InvalidDocument(in) ==
    /\ in.file # None
    /\ \/ in.file[1].json = "malformed"
       \/ ~in.file[1].conforms
       \/ \E i \in 1..Len(in.file[1].items) :
             /\ in.file[1].items[i].kind = "object"
             /\ \E j \in 1..Len(in.file[1].items[i].url_pattern) :
                   in.file[1].items[i].url_pattern[j] = LParen

\* C26: loading returns either an error and the nil list, or no error and
\* a list whose rules all have a compiled pattern; an invalid document
\* (malformed, rejected by the schema, or with a pattern that does not
\* compile) gives the error, and no decorator is built after an error.
C26_AllOrNothing ==
    (fnOut # None /\ fnIn \in LoadInputs) =>
        /\ \/ fnOut[1].err # "nil" /\ fnOut[1].builders = None
           \/ /\ fnOut[1].err = "nil"
              /\ \A i \in 1..Len(Elements(fnOut[1].builders)) :
                    Elements(fnOut[1].builders)[i].r # NilRegexp
        /\ InvalidDocument(fnIn) => fnOut[1].err # "nil"
        /\ fnOut[1].err # "nil" =>
              fromFilePc # "constructed" /\ builders = <<>> /\ senders = <<>>
        /\ fromFilePc = "constructed" => ~InvalidDocument(fnIn)

C26_Witness ==
    /\ fnOut # None /\ fnIn \in LoadInputs
    /\ fromFilePc = "refused"
    /\ fnIn.file # None /\ fnIn.schema # None
    /\ fnIn.schema[1].wellFormed
    /\ fnIn.file[1].conforms
    /\ Len(fnIn.file[1].items) = 2
    /\ fnIn.file[1].items[1].url_pattern = <<1>>
    /\ fnIn.file[1].items[2].url_pattern = <<LParen, 1>>
    /\ fnOut[1].builders = None

\* C28: every call of the decorator's Director is one call of the proxy's
\* Director with the same request, and it starts no audit task, sends no
\* Event and leaves the rules and the senders as they are.
C28_DirectorDelegates ==
    /\ [](dirCalls = dirIn)
    /\ [][dirIn' # dirIn =>
            /\ Len(dirCalls') = Len(dirCalls) + 1
            /\ dirCalls'[Len(dirCalls')] = dirIn'[Len(dirIn')]
            /\ UNCHANGED <<rtPc, taskPc, taskReq, taskResp, bi, si, sent, builders, senders>>]_vars

C28_Witness ==
    /\ Len(dirIn) >= 2
    /\ dirIn[1] # None
    /\ dirCalls = dirIn
    /\ taskPc = "run"
    /\ sent # <<>>

\* C30: a decorator that has been built has the stdout sender, has the
\* Kafka sender exactly when the configuration enables it, and has no
\* other; once built, no step changes its sender list.
C30_SendersFixed ==
    /\ [](fromFilePc = "constructed" =>
            /\ \E i \in 1..Len(senders) : senders[i] = "stdout"
            /\ (\E i \in 1..Len(senders) : senders[i] = "kafka") <=> fnIn.kafka
            /\ Len(senders) = IF fnIn.kafka THEN 2 ELSE 1)
    /\ [][fromFilePc = "constructed" => senders' = senders]_vars

C30_Witness ==
    /\ fromFilePc = "constructed"
    /\ fnIn.kafka
    /\ senders = <<"stdout", "kafka">>
    /\ dirIn # <<>>
    /\ taskPc = "done"
    /\ Len(sent) >= 2

\* The configuration a call works with, the rule's over the authorizer's
\* own, lacks an endpoint or a payload or has an endpoint that is no URL.
InvalidMerged(in) ==
    LET e == IF in.config.endpoint = None THEN in.global.endpoint ELSE in.config.endpoint
        p == IF in.config.payload = None THEN in.global.payload ELSE in.config.payload
    IN  e = None \/ p = None \/ e = Some("invalid-url")

\* C31: Validate returns an error whenever the authorizer is not enabled;
\* when it is enabled, it returns an error exactly when the merged
\* configuration is invalid.
C31_ValidateErrors ==
    (fnOut # None /\ fnIn \in OpaInputs /\ fnOut[1].op = "Validate") =>
        /\ ~fnIn.enabled => fnOut[1].err # "nil"
        /\ fnIn.enabled => (fnOut[1].err # "nil" <=> InvalidMerged(fnIn))

C31_Witness ==
    /\ fnOut # None /\ fnIn \in OpaInputs /\ fnOut[1].op = "Validate"
    /\ ~fnIn.enabled
    /\ ~InvalidMerged(fnIn)
    /\ fnIn.config.endpoint # None
    /\ fnOut[1].err = "ErrAuthorizerNotEnabled"

\* The payload of the merged configuration of a call.
MergedPayload(in) ==
    IF in.config.payload = None THEN in.global.payload ELSE in.config.payload

\* The request has a JSON body that cannot be read to its end or is no JSON.
UnparsableBody(r) ==
    /\ r.Body # None
    /\ r.ContentLength >= 0
    /\ r.ContentType = "application/json"
    /\ \/ r.Body[1].fails = "read"
       \/ r.Body[1].data \notin {<<49>>, <<123, 125>>}

\* C37: Authorize returns no error only when the configuration is valid,
\* the endpoint answered 200 with a body that decodes, and the decision
\* allows and gives no deny reason; an invalid configuration, an unparsable
\* request body, a template that fails, a transport failure, another
\* status, an undecodable answer, allow = false or a deny reason each give
\* an error.
C37_FailsClosed ==
    (fnOut # None /\ fnIn \in OpaInputs /\ fnOut[1].op = "Authorize") =>
        /\ fnOut[1].err = "nil" =>
              /\ ~InvalidMerged(fnIn)
              /\ fnIn.answer.err = "nil"
              /\ fnIn.answer.status = 200
              /\ fnIn.answer.body.json = "object"
              /\ fnIn.answer.body.result # None
              /\ fnIn.answer.body.result[1].allow = [k |-> "bool", v |-> TRUE]
              /\ fnIn.answer.body.result[1].deny = ""
        /\ InvalidMerged(fnIn) => fnOut[1].err # "nil"
        /\ UnparsableBody(fnIn.r) => fnOut[1].err # "nil"
        /\ MergedPayload(fnIn) = Some("{") => fnOut[1].err # "nil"
        /\ ~fnIn.session.Marshals => fnOut[1].err # "nil"
        /\ fnIn.answer.err # "nil" => fnOut[1].err # "nil"
        /\ fnIn.answer.status # 200 => fnOut[1].err # "nil"
        /\ fnIn.answer.body.json = "garbage" => fnOut[1].err # "nil"
        /\ (fnIn.answer.body.result # None /\ fnIn.answer.body.result[1].allow.k = "str")
              => fnOut[1].err # "nil"
        /\ (fnIn.answer.body.result = None
              \/ fnIn.answer.body.result[1].allow # [k |-> "bool", v |-> TRUE]
              \/ fnIn.answer.body.result[1].deny # "") => fnOut[1].err # "nil"

C37_Witness ==
    /\ fnOut # None /\ fnIn \in OpaInputs /\ fnOut[1].op = "Authorize"
    /\ fnOut[1].err = "nil"
    /\ MergedPayload(fnIn) = Some("std.extVar('input')")
    /\ fnIn.r.Body = Some(BytesReader(<<123, 125>>))
    /\ fnIn.r.ContentType = "application/json" /\ fnIn.r.ContentLength >= 0
    /\ fnOut[1].posted # None
    /\ fnOut[1].posted[1].k = "input"

\* C36: after Authorize has returned for a request with a JSON body, the
\* bytes still to be read from the request's body are all of the body.
C36_BodyStillAvailable ==
    (/\ fnOut # None /\ fnIn \in OpaInputs /\ fnOut[1].op = "Authorize"
     /\ fnIn.r.Body # None
     /\ fnIn.r.ContentType = "application/json"
     /\ fnIn.r.ContentLength >= 0
     /\ ~UnparsableBody(fnIn.r))
        => SubSeq(fnIn.r.Body[1].data, fnOut[1].read + 1, Len(fnIn.r.Body[1].data))
              = fnIn.r.Body[1].data

\* C35: under concurrent Authorize calls with a non-empty payload template,
\* the payload a call posts to the OPA endpoint is the template evaluated
\* with the input of that same call.
C35_PayloadFromOwnInput ==
    \A g \in Getters :
        (opaPayload # "" /\ opaPosted[g] # None)
            => opaPosted[g][1] = EvaluateSnippet(opaPayload, jsonInput(g)).str

\* C34: the audit task works on a private snapshot: whatever the caller
\* does to its request and to the response it was returned after RoundTrip
\* has returned, the event is built from the headers, status code and body
\* bytes of the moment of capture.
C34_TaskWorksOnSnapshot ==
    snapEvent # None =>
        /\ snapEvent[1].RequestHeader = snapCaptured.RequestHeader
        /\ snapEvent[1].RequestBody = SnapBytes
        /\ snapEvent[1].ResponseBody = SnapBytes
        /\ snapEvent[1].ResponseHeader = snapCaptured.ResponseHeader
        /\ snapEvent[1].status_code = snapCaptured.StatusCode

\* C33: for Reads followed by one Close, with GetBufBlocking called
\* concurrently, the revision with the channels and the revision with the
\* RWMutex cannot be told apart: on neither has a GetBufBlocking returned
\* while the stream is not sealed, on neither is a caller left waiting once
\* Close has returned, and a caller gets the same bytes from both.
C33_SameObservations ==
    \A g \in Getters :
        /\ getPc[g] \in {"readbuf", "done"} => bufferReady
        /\ rwGetPc[g] = "done" => rwLock = "free"
        /\ closePc = "done" => getPc[g] # "recv"
        /\ rwClosePc = "done" => ENABLED RwGetBufReturn(g) \/ rwGetPc[g] # "rlock"
        /\ (getPc[g] = "done" /\ rwGetPc[g] = "done") => result[g] = rwResult[g]

\* Both streams were read to the end with bytes kept, closed once, and
\* every caller has got its bytes from both, one at least after waiting.
C33_Witness ==
    /\ closePc = "done" /\ rwClosePc = "done"
    /\ buffer # <<>>
    /\ Len(notify) > 0
    /\ \A g \in Getters : getPc[g] = "done" /\ rwGetPc[g] = "done"

\* The second Close is at the send of line 70 on a channel whose getter has
\* received already and never receives on it again.
SendNeverReceived ==
    /\ closeAgain
    /\ closePc = "send"
    /\ notifyIdx <= Len(notify)
    /\ getPc[notify[notifyIdx]] # "recv"

\* C32: a stream is sealed once: a Close after that returns, without
\* blocking and without a fault, and leaves the sealed flag and the buffer
\* as they were, whether or not observers had waited.
C32_FurtherCloseReturns ==
    /\ ~SendNeverReceived
    /\ rwClosePc # "fault"
    /\ closeAgain => bufferReady

====
